---------------------------- MODULE Spec2Model ----------------------------
(***************************************************************************)
(* cortana-metrics: endpoint capture (src/index.js) and the OpenAPI        *)
(* specification store (src/openapi-generator.js).                         *)
(*                                                                         *)
(* Strings whose characters the code inspects (paths, methods, object     *)
(* keys, header names) are sequences of one-character strings.  Opaque     *)
(* string leaves are TLA+ strings.  JavaScript objects live in a heap      *)
(* (mem: address -> node), so that aliasing, in-place mutation and         *)
(* reference cycles are those of the program.                              *)
(***************************************************************************)
EXTENDS Integers, Sequences, FiniteSets, TLC

VARIABLES
    mem,        \* the JavaScript heap: address -> object or array
    mem0,       \* the heap as the caller built it, before any call (history)
    opts,       \* the options object handed to new EndpointCapture(options)
    req,        \* the request object handed to captureRequest / _sanitizeBody
    rpc,        \* position of the capture run: "input", "captured", "sanitized";
                \* of a request in the middleware: "input", "served", "failed",
                \* "finished"
    out,        \* what the call returned, or that it threw
    mw,         \* the middleware of createMiddleware(callback): the callback, the
                \* collection rules, the calls of next() and whether an error
                \* left the middleware or its 'finish' listener (history)
    gen,        \* OpenAPIGenerator: this.options
    spec,       \* OpenAPIGenerator: this.spec, the OpenAPI document
    endpointHashes, \* OpenAPIGenerator: this.endpointHashes, key -> hash
    disk,       \* the output directory: file -> the JSON text it holds
    writes,     \* the number of file writes made so far (history)
    clock,      \* the clock, in milliseconds
    calls,      \* the number of addEndpoint calls made so far
    last,       \* the latest addEndpoint call: what was captured then and in the
                \* call before, the state before it, the key, the result (history)
    manager,    \* CollectionManager: this.options
    collections, \* CollectionManager: this.collections, name -> generator
    mtimes,     \* the modification times of the files in the backup directory
    pending     \* the writes handed to an asynchronous storage delegate that
                \* have not completed yet

captureVars == <<mem, mem0, opts, req, rpc, out, mw>>
storeVars == <<gen, spec, endpointHashes, disk, writes, clock, calls, last>>
managerVars == <<manager, collections, mtimes>>
vars == <<mem, mem0, opts, req, rpc, out, mw,
          gen, spec, endpointHashes, disk, writes, clock, calls, last,
          manager, collections, mtimes, pending>>

---------------------------------------------------------------------------
(* Bounds *)

MaxNodes == 2       \* objects/arrays in a request body's object graph
MaxArrLen == 1      \* elements of an array of a request body
MaxPathLen == 5     \* characters of a path handed to the normalization alone

\* Call frames available to a recursion before the engine raises RangeError.
\* Deeper than any acyclic body of the model, so only a cycle exhausts it.
StackLimit == MaxNodes + 2

---------------------------------------------------------------------------
(* Strings as character sequences *)

UpperChars == <<"A","B","C","D","E","F","G","H","I","J","K","L","M",
                "N","O","P","Q","R","S","T","U","V","W","X","Y","Z">>
LowerChars == <<"a","b","c","d","e","f","g","h","i","j","k","l","m",
                "n","o","p","q","r","s","t","u","v","w","x","y","z">>

\* The lower-case form of each upper-case letter.
LowerOf == [c \in { UpperChars[i] : i \in 1..26 } |->
              LowerChars[CHOOSE i \in 1..26 : UpperChars[i] = c]]

LowerChar(c) == IF c \in DOMAIN LowerOf THEN LowerOf[c] ELSE c

\* String.prototype.toLowerCase
ToLowerCase(s) == [i \in 1..Len(s) |-> LowerChar(s[i])]

\* String.prototype.includes
Includes(s, sub) ==
    \E i \in 0..(Len(s) - Len(sub)) : SubSeq(s, i + 1, i + Len(sub)) = sub

sPassword == <<"p","a","s","s","w","o","r","d">>
sToken == <<"t","o","k","e","n">>
sSecret == <<"s","e","c","r","e","t">>
sKey == <<"k","e","y">>
sAuthorization == <<"a","u","t","h","o","r","i","z","a","t","i","o","n">>
sCookie == <<"c","o","o","k","i","e">>
sXApiKey == <<"x","-","a","p","i","-","k","e","y">>
sContentType == <<"c","o","n","t","e","n","t","-","t","y","p","e">>

---------------------------------------------------------------------------
(* JavaScript values.  A value is a primitive or a reference into mem. *)

Undefined == [t |-> "undefined"]
Null == [t |-> "null"]
Str(s) == [t |-> "string", s |-> s]
Num(n) == [t |-> "number", n |-> n]
Ref(a) == [t |-> "ref", a |-> a]
Bool(b) == [t |-> "boolean", b |-> b]
\* A string whose characters the code inspects.
CStr(c) == [t |-> "string", c |-> c]
\* A list or map (a sequence of [k, v]) that may also be undefined.
List(l) == [list |-> l]

Obj(entries) == [kind |-> "object", entries |-> entries]
Arr(items) == [kind |-> "array", items |-> items]

REDACTED == Str("[REDACTED]")

IsRef(v) == v.t = "ref"
\* `v && typeof v === 'object'`
IsObjectLike(v) == IsRef(v)
\* `!v`: undefined, null, "" and 0 are falsy
Falsy(v) ==
    \/ v.t \in {"undefined", "null"}
    \/ (v.t = "string" /\ v.s = "")
    \/ (v.t = "number" /\ v.n = 0)

HasKey(node, key) == \E i \in 1..Len(node.entries) : node.entries[i].k = key
KeyIndex(node, key) == CHOOSE i \in 1..Len(node.entries) : node.entries[i].k = key
\* obj[key]
GetKey(node, key) ==
    IF HasKey(node, key) THEN node.entries[KeyIndex(node, key)].v ELSE Undefined
\* obj[key] = v: an existing key keeps its place, a new one is appended
SetKey(node, key, v) ==
    IF HasKey(node, key)
    THEN [node EXCEPT !.entries[KeyIndex(node, key)].v = v]
    ELSE [node EXCEPT !.entries = Append(@, [k |-> key, v |-> v])]
\* arr[i] (1-based here)
GetIndex(node, i) == IF i \in 1..Len(node.items) THEN node.items[i] ELSE Undefined

\* The values a node holds, in order.
Children(node) ==
    IF node.kind = "array" THEN node.items
    ELSE [i \in 1..Len(node.entries) |-> node.entries[i].v]

\* Addresses reachable from address a (a included).
RECURSIVE ReachFrom(_, _, _)
ReachFrom(m, frontier, seen) ==
    IF frontier = {} THEN seen
    ELSE LET held == UNION { { Children(m[a])[i] : i \in 1..Len(Children(m[a])) } :
                             a \in frontier }
             next == { b \in DOMAIN m : Ref(b) \in held }
         IN ReachFrom(m, next \ (seen \cup frontier), seen \cup frontier)
Reachable(m, v) == IF IsRef(v) THEN ReachFrom(m, {v.a}, {}) ELSE {}

\* Whether the object graph under v holds a reference cycle.
Cyclic(m, v) ==
    \E a \in Reachable(m, v) :
        \E i \in 1..Len(Children(m[a])) :
            LET c == Children(m[a])[i]
            IN IsRef(c) /\ a \in Reachable(m, c)

---------------------------------------------------------------------------
(* lodash cloneDeep: a copy of the graph under v at fresh addresses, sharing
   and cycles preserved.  The node at address a is copied to a + off. *)

ShiftValue(v, off) == IF IsRef(v) THEN Ref(v.a + off) ELSE v
ShiftNode(node, off) ==
    IF node.kind = "array"
    THEN Arr([i \in 1..Len(node.items) |-> ShiftValue(node.items[i], off)])
    ELSE Obj([i \in 1..Len(node.entries) |->
                [k |-> node.entries[i].k, v |-> ShiftValue(node.entries[i].v, off)]])

CloneDeepMem(m, v, off) ==
    LET src == Reachable(m, v)
    IN [a \in DOMAIN m \cup { b + off : b \in src } |->
          IF a \in DOMAIN m THEN m[a] ELSE ShiftNode(m[a - off], off)]
CloneDeepRoot(v, off) == ShiftValue(v, off)

\* A fresh offset: beyond every address in use.
FreshOff(m) ==
    IF DOMAIN m = {} THEN 0 ELSE CHOOSE a \in DOMAIN m : \A b \in DOMAIN m : b <= a

---------------------------------------------------------------------------
(* EndpointCapture: options *)

\* `x || []`
OrEmpty(x) == IF x = Undefined THEN << >> ELSE x.list

\* constructor: the two redaction lists of this.options
Constructor(options) ==
    [sensitiveHeaders |-> OrEmpty(options.sensitiveHeaders),
     sensitiveFields |-> OrEmpty(options.sensitiveFields)]

\* Mutant: the key is compared as written, without lower-casing it.
IsSensitiveKeyCased(o, key) ==
    \E j \in 1..Len(o.sensitiveFields) :
        Includes(key, ToLowerCase(o.sensitiveFields[j]))

\* The key test of _recursiveEnhance and _recursiveSanitize:
\* sensitiveFields.some(field => lowerKey.includes(field.toLowerCase()))
IsSensitiveKey(o, key) ==
    \E j \in 1..Len(o.sensitiveFields) :
        Includes(ToLowerCase(key), ToLowerCase(o.sensitiveFields[j]))

---------------------------------------------------------------------------
(* _getDataType.  Opaque string leaves are classified by table: the pool's
   strings are plain except the one e-mail address. *)

IsEmail(s) == s \in {"a@b.com"}

GetDataType(m, v) ==
    CASE v.t = "null" -> "null"
      [] v.t = "undefined" -> "undefined"
      [] v.t = "number" -> "integer"
      [] v.t = "string" -> IF IsEmail(v.s) THEN "email" ELSE "string"
      [] v.t = "ref" -> IF m[v.a].kind = "array" THEN "array" ELSE "object"

---------------------------------------------------------------------------
(* _recursiveEnhance.  st = [mem, has, fields, thrown] is the heap and the
   result object's hasSensitiveData / sensitiveFields as the walk goes; the
   three arguments are the addresses of the sanitized, actual and types
   clones.  A call deeper than StackLimit raises RangeError (thrown), which
   nothing on the way up catches. *)

SetItem(node, i, v) == [node EXCEPT !.items[i] = v]

RECURSIVE RecursiveEnhance(_, _, _, _, _, _, _)
RECURSIVE EnhanceItems(_, _, _, _, _, _, _, _)
RECURSIVE EnhanceKeys(_, _, _, _, _, _, _, _, _)

\* sanitized.forEach((item, index) => ...), from index i on
EnhanceItems(o, st, sa, ac, ty, path, depth, i) ==
    IF st.thrown \/ i > Len(st.mem[sa].items) THEN st
    ELSE LET item == st.mem[sa].items[i]
             st2 == IF IsObjectLike(item)
                    THEN RecursiveEnhance(o, st, item, GetIndex(st.mem[ac], i),
                                          GetIndex(st.mem[ty], i),
                                          Append(path, [index |-> i - 1]), depth + 1)
                    ELSE [st EXCEPT !.mem[ty] =
                              SetItem(@, i, Str(GetDataType(st.mem, item)))]
         IN EnhanceItems(o, st2, sa, ac, ty, path, depth, i + 1)

\* Object.keys(sanitized).forEach(key => ...), from the i-th key of keys on
EnhanceKeys(o, st, sa, ac, ty, path, depth, keys, i) ==
    IF st.thrown \/ i > Len(keys) THEN st
    ELSE LET key == keys[i]
             currentPath == Append(path, [key |-> key])
             cur == GetKey(st.mem[sa], key)
             st2 ==
               IF IsSensitiveKey(o, key)
               THEN [st EXCEPT
                       !.has = TRUE,
                       !.fields = Append(@, [path |-> currentPath,
                                             field |-> key,
                                             type |-> GetDataType(st.mem, cur),
                                             actualValue |-> GetKey(st.mem[ac], key)]),
                       !.mem[sa] = SetKey(@, key, REDACTED),
                       !.mem[ty] = SetKey(@, key, Str(GetDataType(st.mem, REDACTED)))]
               ELSE IF IsObjectLike(cur)
                    THEN RecursiveEnhance(o, st, cur, GetKey(st.mem[ac], key),
                                          GetKey(st.mem[ty], key), currentPath, depth + 1)
                    ELSE [st EXCEPT !.mem[ty] =
                              SetKey(@, key, Str(GetDataType(st.mem, cur)))]
         IN EnhanceKeys(o, st2, sa, ac, ty, path, depth, keys, i + 1)

RecursiveEnhance(o, st, sanitized, actual, types, path, depth) ==
    IF st.thrown THEN st
    ELSE IF depth > StackLimit THEN [st EXCEPT !.thrown = TRUE]
    ELSE IF st.mem[sanitized.a].kind = "array"
         THEN EnhanceItems(o, st, sanitized.a, actual.a, types.a, path, depth, 1)
         ELSE EnhanceKeys(o, st, sanitized.a, actual.a, types.a, path, depth,
                          [i \in 1..Len(st.mem[sanitized.a].entries) |->
                              st.mem[sanitized.a].entries[i].k], 1)

\* Mutant: the walk runs on the caller's own object, not on a copy.
SanitizedAlias(m, body) == [mem |-> m, root |-> body]

\* The copy that is walked and redacted: result.sanitized = _.cloneDeep(body).
SanitizedClone(m, body) == [mem |-> CloneDeepMem(m, body, FreshOff(m)),
                            root |-> CloneDeepRoot(body, FreshOff(m))]

\* _enhanceDataCapture: [thrown, mem, sanitized, actual, types,
\* hasSensitiveData, sensitiveFields]; sensitiveFields is Undefined on the
\* early return, which sets no such key.
EnhanceDataCapture(o, m, body) ==
    IF Falsy(body) \/ ~IsObjectLike(body)
    THEN [thrown |-> FALSE, mem |-> m, sanitized |-> body, actual |-> body,
          types |-> Str(GetDataType(m, body)), hasSensitiveData |-> Bool(FALSE),
          sensitiveFields |-> Undefined]
    ELSE LET c1 == SanitizedClone(m, body)
             off2 == FreshOff(c1.mem)
             m2 == CloneDeepMem(c1.mem, body, off2)
             off3 == FreshOff(m2)
             m3 == CloneDeepMem(m2, body, off3)
             st == RecursiveEnhance(o,
                     [mem |-> m3, has |-> FALSE, fields |-> << >>, thrown |-> FALSE],
                     c1.root, CloneDeepRoot(body, off2), CloneDeepRoot(body, off3),
                     << >>, 1)
         IN [thrown |-> st.thrown, mem |-> st.mem, sanitized |-> c1.root,
             actual |-> CloneDeepRoot(body, off2), types |-> CloneDeepRoot(body, off3),
             hasSensitiveData |-> Bool(st.has), sensitiveFields |-> List(st.fields)]

---------------------------------------------------------------------------
(* _recursiveSanitize and _sanitizeBody.  st = [mem, visited, thrown]. *)

RECURSIVE RecursiveSanitize(_, _, _, _)
RECURSIVE SanitizeItems(_, _, _, _, _)
RECURSIVE SanitizeKeys(_, _, _, _, _, _)

\* obj.forEach(item => this._recursiveSanitize(item, visited))
SanitizeItems(o, st, a, depth, i) ==
    IF st.thrown \/ i > Len(st.mem[a].items) THEN st
    ELSE SanitizeItems(o, RecursiveSanitize(o, st, st.mem[a].items[i], depth + 1),
                       a, depth, i + 1)

SanitizeKeys(o, st, a, depth, keys, i) ==
    IF st.thrown \/ i > Len(keys) THEN st
    ELSE LET key == keys[i]
             st2 == IF IsSensitiveKey(o, key)
                    THEN [st EXCEPT !.mem[a] = SetKey(@, key, REDACTED)]
                    ELSE RecursiveSanitize(o, st, GetKey(st.mem[a], key), depth + 1)
         IN SanitizeKeys(o, st2, a, depth, keys, i + 1)

RecursiveSanitize(o, st, v, depth) ==
    IF st.thrown THEN st
    ELSE IF depth > StackLimit THEN [st EXCEPT !.thrown = TRUE]
    ELSE IF ~IsObjectLike(v) THEN st
    ELSE IF st.mem[v.a].kind = "array" THEN SanitizeItems(o, st, v.a, depth, 1)
    ELSE IF v.a \in st.visited THEN st
    ELSE SanitizeKeys(o, [st EXCEPT !.visited = @ \cup {v.a}], v.a, depth,
                      [i \in 1..Len(st.mem[v.a].entries) |-> st.mem[v.a].entries[i].k], 1)

\* _sanitizeBody: [thrown, mem, sanitized]
SanitizeBody(o, m, body) ==
    IF Falsy(body) \/ ~IsObjectLike(body)
    THEN [thrown |-> FALSE, mem |-> m, sanitized |-> body]
    ELSE LET c1 == SanitizedClone(m, body)
             st == RecursiveSanitize(o, [mem |-> c1.mem, visited |-> {}, thrown |-> FALSE],
                                     c1.root, 1)
         IN [thrown |-> st.thrown, mem |-> st.mem, sanitized |-> c1.root]

\* _sanitizeHeaders: headers is a map (a list of [k, v]); a shallow copy with
\* the value of every key equal, ignoring case, to a sensitive header replaced.
SanitizeHeaders(o, headers) ==
    IF headers = Undefined THEN List(<< >>)
    ELSE List([i \in 1..Len(headers.list) |->
            IF \E j \in 1..Len(o.sensitiveHeaders) :
                   ToLowerCase(headers.list[i].k) = ToLowerCase(o.sensitiveHeaders[j])
            THEN [k |-> headers.list[i].k, v |-> REDACTED]
            ELSE headers.list[i]])

---------------------------------------------------------------------------
(* captureRequest *)

\* req.get(name): the header's value, names compared ignoring case
HeaderGet(headers, name) ==
    IF headers # Undefined
       /\ \E i \in 1..Len(headers.list) : ToLowerCase(headers.list[i].k) = name
    THEN headers.list[CHOOSE i \in 1..Len(headers.list) :
                         ToLowerCase(headers.list[i].k) = name].v
    ELSE Undefined

\* captureRequest(req) at clock reading now: [thrown, mem, data].  The
\* capture* switches are at their default (on).  Query, params, cookies and
\* the network identifiers are copied through unread and are left out.
CaptureRequest(o, m, r, now) ==
    IF r = Undefined \/ r.method = Undefined \/ r.url = Undefined
    THEN [thrown |-> TRUE, mem |-> m, data |-> Undefined]
    ELSE LET e == IF Falsy(r.body)
                  THEN [thrown |-> FALSE, mem |-> m, sanitized |-> Undefined,
                        actual |-> Undefined, types |-> Undefined,
                        hasSensitiveData |-> Undefined, sensitiveFields |-> Undefined]
                  ELSE EnhanceDataCapture(o, m, r.body)
         IN [thrown |-> e.thrown,
             mem |-> e.mem,
             data |-> [timestamp |-> now,
                       method |-> r.method,
                       url |-> r.url,
                       path |-> r.path,
                       startTime |-> now,
                       headers |-> SanitizeHeaders(o, r.headers),
                       body |-> e.sanitized,
                       bodyActual |-> e.actual,
                       bodyTypes |-> e.types,
                       hasSensitiveData |-> e.hasSensitiveData,
                       sensitiveFields |-> e.sensitiveFields,
                       contentType |-> HeaderGet(r.headers, sContentType)]]

---------------------------------------------------------------------------
(* JSON trees.  What a capture record and the OpenAPI document hold is kept
   as a tree: "doc" nodes have the fixed fields the code writes (a TLA+
   record), "object" nodes have keys that are data (paths, methods, body
   keys), "array" nodes have items; leaves are primitives. *)

Doc(r) == [t |-> "doc", fields |-> r]
JObj(entries) == [t |-> "object", entries |-> entries]
JArr(items) == [t |-> "array", items |-> items]

\* The acyclic object graph under v as a tree.
RECURSIVE Tree(_, _)
Tree(m, v) ==
    IF ~IsRef(v) THEN v
    ELSE IF m[v.a].kind = "array"
         THEN JArr([i \in 1..Len(m[v.a].items) |-> Tree(m, m[v.a].items[i])])
         ELSE JObj([i \in 1..Len(m[v.a].entries) |->
                      [k |-> m[v.a].entries[i].k, v |-> Tree(m, m[v.a].entries[i].v)]])

JHasKey(obj, key) == \E i \in 1..Len(obj.entries) : obj.entries[i].k = key
JGet(obj, key) ==
    IF JHasKey(obj, key)
    THEN obj.entries[CHOOSE i \in 1..Len(obj.entries) : obj.entries[i].k = key].v
    ELSE Undefined
JSet(obj, key, v) ==
    IF JHasKey(obj, key)
    THEN [obj EXCEPT !.entries[CHOOSE i \in 1..Len(obj.entries) : obj.entries[i].k = key].v = v]
    ELSE [obj EXCEPT !.entries = Append(@, [k |-> key, v |-> v])]
JKeys(obj) == { obj.entries[i].k : i \in 1..Len(obj.entries) }

\* JSON.stringify, as the tree its text denotes: a field or key whose value
\* is undefined is dropped, an undefined array item becomes null.
RECURSIVE Stringify(_)
Stringify(v) ==
    CASE v.t = "doc" ->
           Doc([f \in { g \in DOMAIN v.fields : v.fields[g] # Undefined } |->
                  Stringify(v.fields[f])])
      [] v.t = "object" ->
           LET kept == SelectSeq(v.entries, LAMBDA e : e.v # Undefined)
           IN JObj([i \in 1..Len(kept) |-> [k |-> kept[i].k, v |-> Stringify(kept[i].v)]])
      [] v.t = "array" ->
           JArr([i \in 1..Len(v.items) |->
                   IF v.items[i] = Undefined THEN Null ELSE Stringify(v.items[i])])
      [] OTHER -> v

---------------------------------------------------------------------------
(* The capture runs: one EndpointCapture, one request, one call. *)

kName == <<"n","a","m","e">>
kUserPassword == <<"u","s","e","r","P","a","s","s","w","o","r","d">>
hAuthorization == <<"A","u","t","h","o","r","i","z","a","t","i","o","n">>
pTest == <<"/","t","e","s","t">>
mPOST == <<"P","O","S","T">>

BodyKeys == <<kName, kUserPassword>>
Absent == [t |-> "absent"]
LeafValues == {Str("ann")}
\* What a key or an element of a graph of n nodes may hold.
HeldValues(n) == LeafValues \cup { Ref(a) : a \in 1..n }

\* The object with the keys of BodyKeys that f gives a value, in that order.
ObjectOf(f) ==
    Obj(SelectSeq([i \in 1..Len(BodyKeys) |-> [k |-> BodyKeys[i], v |-> f[i]]],
                  LAMBDA e : e.v # Absent))
ObjectNodes(n) ==
    { ObjectOf(f) : f \in [1..Len(BodyKeys) -> HeldValues(n) \cup {Absent}] }
ArrayNodes(n) ==
    UNION { { Arr(f) : f \in [1..len -> HeldValues(n)] } : len \in 0..MaxArrLen }
\* Every object graph of up to MaxNodes nodes, all of them reachable from
\* node 1 (the body); shared and cyclic ones included.
Heaps ==
    UNION { { h \in [1..n -> ObjectNodes(n) \cup ArrayNodes(n)] :
                Reachable(h, Ref(1)) = 1..n } : n \in 1..MaxNodes }

\* What the caller passes as constructor options.
OptionPool ==
    { [sensitiveHeaders |-> Undefined, sensitiveFields |-> Undefined],
      [sensitiveHeaders |-> List(<<sAuthorization>>),
       sensitiveFields |-> List(<<sPassword>>)] }
HeaderPool ==
    { List(<< >>),
      List(<<[k |-> hAuthorization, v |-> Str("Bearer abc")],
             [k |-> sContentType, v |-> Str("application/json")]>>) }

\* A string whose characters are the JSON text of the object graph at
\* address 1 of m, held with the tree that the text denotes.
JsonText(m) == [t |-> "string", s |-> "json", json |-> Stringify(Tree(m, Ref(1)))]

\* The body is an object graph, or the JSON text of one as a string, or a
\* plain value.
RedactInit ==
    /\ opts \in OptionPool
    /\ \/ /\ mem0 \in Heaps
          /\ req = [method |-> CStr(mPOST), url |-> CStr(pTest), path |-> CStr(pTest),
                    headers |-> List(<< >>), body |-> Ref(1)]
       \/ /\ mem0 \in { h \in Heaps : ~Cyclic(h, Ref(1)) }
          /\ req = [method |-> CStr(mPOST), url |-> CStr(pTest), path |-> CStr(pTest),
                    headers |-> List(<< >>), body |-> JsonText(mem0)]
       \/ /\ mem0 = << >>
          /\ \E h \in HeaderPool, b \in LeafValues :
               req = [method |-> CStr(mPOST), url |-> CStr(pTest), path |-> CStr(pTest),
                      headers |-> h, body |-> b]
    /\ mem = mem0
    /\ rpc = "input"
    /\ out = Undefined
    /\ mw = Undefined
    /\ gen = Undefined /\ spec = Undefined /\ endpointHashes = Undefined
    /\ disk = Undefined /\ writes = 0 /\ clock = 1 /\ calls = 0 /\ last = Undefined
    /\ manager = Undefined /\ collections = Undefined /\ mtimes = Undefined
    /\ pending = Undefined

\* capture.captureRequest(req)
CaptureRequestCall ==
    /\ rpc = "input"
    /\ LET r == CaptureRequest(Constructor(opts), mem, req, 1)
       IN /\ mem' = r.mem
          /\ out' = [thrown |-> r.thrown, data |-> r.data]
    /\ rpc' = "captured"
    /\ UNCHANGED <<mem0, opts, req, mw>>
    /\ UNCHANGED <<storeVars, managerVars, pending>>

\* capture._sanitizeBody(req.body)
SanitizeBodyCall ==
    /\ rpc = "input"
    /\ LET r == SanitizeBody(Constructor(opts), mem, req.body)
       IN /\ mem' = r.mem
          /\ out' = [thrown |-> r.thrown, data |-> [body |-> r.sanitized]]
    /\ rpc' = "sanitized"
    /\ UNCHANGED <<mem0, opts, req, mw>>
    /\ UNCHANGED <<storeVars, managerVars, pending>>

RedactNext == CaptureRequestCall \/ SanitizeBodyCall

SpecRedact == RedactInit /\ [][RedactNext]_vars

---------------------------------------------------------------------------
(* captureResponse and captureEndpointData, the record as a tree *)

\* The entries of a header map as an object node.
HeaderObject(h) == JObj(h.list)

\* A sensitive-field descriptor; path.join('.') is kept as the list it joins.
DescriptorTree(m, d) ==
    Doc([path |-> JArr([i \in 1..Len(d.path) |->
                          IF "key" \in DOMAIN d.path[i] THEN CStr(d.path[i].key)
                          ELSE Num(d.path[i].index)]),
         field |-> CStr(d.field),
         type |-> Str(d.type),
         actualValue |-> Tree(m, d.actualValue)])

DescriptorsTree(m, l) ==
    IF l = Undefined THEN Undefined
    ELSE JArr([i \in 1..Len(l.list) |-> DescriptorTree(m, l.list[i])])

\* The request part of a record, from what captureRequest returned.
RequestTree(c) ==
    Doc([timestamp |-> Num(c.data.timestamp),
         method |-> c.data.method,
         url |-> c.data.url,
         path |-> c.data.path,
         originalPath |-> Undefined,
         startTime |-> Num(c.data.startTime),
         headers |-> HeaderObject(c.data.headers),
         body |-> Tree(c.mem, c.data.body),
         bodyActual |-> Tree(c.mem, c.data.bodyActual),
         bodyTypes |-> Tree(c.mem, c.data.bodyTypes),
         hasSensitiveData |-> c.data.hasSensitiveData,
         sensitiveFields |-> DescriptorsTree(c.mem, c.data.sensitiveFields),
         contentType |-> c.data.contentType])

\* captureResponse(res, originalRequestData) at clock reading now, as a tree.
\* res = [statusCode, headers, body]: body is res.locals.responseBody.
CaptureResponse(o, m, res, startTime, now) ==
    LET e == IF Falsy(res.body)
             THEN [thrown |-> FALSE, mem |-> m, sanitized |-> Undefined,
                   actual |-> Undefined, types |-> Undefined,
                   hasSensitiveData |-> Undefined, sensitiveFields |-> Undefined]
             ELSE EnhanceDataCapture(o, m, res.body)
    IN Doc([timestamp |-> Num(now),
            statusCode |-> Num(res.statusCode),
            endTime |-> Num(now),
            duration |-> IF startTime # 0 THEN Num(now - startTime) ELSE Undefined,
            headers |-> HeaderObject(SanitizeHeaders(o, res.headers)),
            body |-> Tree(e.mem, e.sanitized),
            bodyActual |-> Tree(e.mem, e.actual),
            bodyTypes |-> Tree(e.mem, e.types),
            hasSensitiveData |-> e.hasSensitiveData,
            sensitiveFields |-> DescriptorsTree(e.mem, e.sensitiveFields)])

sVersion == <<"1",".","0",".","0">>

\* captureEndpointData(req, res): both halves read the clock at now.  m
\* holds both bodies.  Only called here with requests captureRequest accepts.
CaptureEndpointData(o, m, r, res, now) ==
    LET c == CaptureRequest(o, m, r, now)
    IN Doc([request |-> RequestTree(c),
            response |-> CaptureResponse(o, m, res, c.data.startTime, now),
            metadata |-> Doc([capturedAt |-> Num(now), version |-> CStr(sVersion)])])

---------------------------------------------------------------------------
(* OpenAPIGenerator: path normalization *)

Digits == {"0","1","2","3","4","5","6","7","8","9"}

\* .replace(/\/$/, '')
StripTrailingSlash(p) ==
    IF Len(p) > 0 /\ p[Len(p)] = "/" THEN SubSeq(p, 1, Len(p) - 1) ELSE p

\* The length of the run of digits that starts at position i.
RECURSIVE DigitRun(_, _)
DigitRun(p, i) == IF i <= Len(p) /\ p[i] \in Digits THEN 1 + DigitRun(p, i + 1) ELSE 0

\* .replace(/\/\d+/g, '/{id}'), from position i on
RECURSIVE ReplaceNumeric(_, _)
ReplaceNumeric(p, i) ==
    IF i > Len(p) THEN << >>
    ELSE IF p[i] = "/" /\ DigitRun(p, i + 1) > 0
         THEN <<"/","{","i","d","}">> \o ReplaceNumeric(p, i + 1 + DigitRun(p, i + 1))
         ELSE <<p[i]>> \o ReplaceNumeric(p, i + 1)

\* Mutant: the raw path is kept as it is.
KeepPath(p) == p

NormalizePathForParameterization(p) == ReplaceNumeric(StripTrailingSlash(p), 1)

\* path.split('/').filter(Boolean)[0], or << >> when there is no such part
RECURSIVE FirstPart(_, _)
FirstPart(p, i) ==
    IF i > Len(p) THEN << >>
    ELSE IF p[i] = "/" THEN FirstPart(p, i + 1)
    ELSE LET rest == SubSeq(p, i, Len(p))
             stop == IF \E j \in 1..Len(rest) : rest[j] = "/"
                     THEN (CHOOSE j \in 1..Len(rest) :
                              rest[j] = "/" /\ \A k \in 1..(j - 1) : rest[k] # "/") - 1
                     ELSE Len(rest)
         IN SubSeq(rest, 1, stop)

UpperOf == [c \in { LowerChars[i] : i \in 1..26 } |->
              UpperChars[CHOOSE i \in 1..26 : LowerChars[i] = c]]
\* String.prototype.toUpperCase
ToUpperCase(s) == [i \in 1..Len(s) |-> IF s[i] \in DOMAIN UpperOf THEN UpperOf[s[i]] ELSE s[i]]

---------------------------------------------------------------------------
(* The normalization runs: one path, one call of
   normalizePathForParameterization. *)

\* The characters of the paths: the slash, a digit, a letter.
PathChars == {"/", "4", "a"}
PathPool == UNION { [1..n -> PathChars] : n \in 0..MaxPathLen }

NormalizeInit ==
    /\ \E p \in PathPool : req = [path |-> p]
    /\ rpc = "input"
    /\ out = Undefined
    /\ mem = << >> /\ mem0 = << >> /\ opts = Undefined /\ mw = Undefined
    /\ gen = Undefined /\ spec = Undefined /\ endpointHashes = Undefined
    /\ disk = Undefined /\ writes = 0 /\ clock = 1 /\ calls = 0 /\ last = Undefined
    /\ manager = Undefined /\ collections = Undefined /\ mtimes = Undefined
    /\ pending = Undefined

\* generator.normalizePathForParameterization(path)
NormalizeCall ==
    /\ rpc = "input"
    /\ out' = [thrown |-> FALSE, data |-> NormalizePathForParameterization(req.path)]
    /\ rpc' = "normalized"
    /\ UNCHANGED <<mem, mem0, opts, req, mw>>
    /\ UNCHANGED <<storeVars, managerVars, pending>>

NormalizeNext == NormalizeCall

SpecNormalize == NormalizeInit /\ [][NormalizeNext]_vars

---------------------------------------------------------------------------
(* OpenAPIGenerator: the Operation built from a record.  g is this.options. *)

\* JavaScript truthiness of a tree value.
Truthy(v) ==
    ~(v = Undefined \/ v = Null \/ v = Bool(FALSE) \/ v = Num(0)
      \/ v = Str("") \/ v = CStr(<< >>))

\* Object.keys(v).length; a truthy string has at least one index.
KeyCount(v) ==
    CASE v.t = "object" -> Len(v.entries)
      [] v.t = "array" -> Len(v.items)
      [] v.t = "string" -> 1
      [] OTHER -> 0

\* generateSchemaFromData.  The strings of the model's bodies do not begin
\* with "[" or "{", so the JSON.parse branch is not taken.
RECURSIVE GenerateSchemaFromData(_)
GenerateSchemaFromData(data) ==
    CASE data = Null \/ data = Undefined -> Doc([type |-> Str("null")])
      [] data.t = "boolean" -> Doc([type |-> Str("boolean")])
      [] data.t = "number" -> Doc([type |-> Str("number"), example |-> data])
      [] data.t = "string" /\ "json" \in DOMAIN data -> GenerateSchemaFromData(data.json)
      [] data.t = "string" /\ "json" \notin DOMAIN data ->
           Doc([type |-> Str("string"), example |-> data])
      [] data.t = "array" ->
           IF Len(data.items) = 0
           THEN Doc([type |-> Str("array"), items |-> Doc([type |-> Str("string")])])
           ELSE Doc([type |-> Str("array"), items |-> GenerateSchemaFromData(data.items[1])])
      [] data.t = "object" ->
           LET required == SelectSeq(data.entries,
                                     LAMBDA e : e.v # Null /\ e.v # Undefined)
           IN Doc([type |-> Str("object"),
                   properties |-> JObj([i \in 1..Len(data.entries) |->
                                          [k |-> data.entries[i].k,
                                           v |-> GenerateSchemaFromData(data.entries[i].v)]]),
                   required |-> IF Len(required) > 0
                                THEN JArr([i \in 1..Len(required) |-> CStr(required[i].k)])
                                ELSE Undefined,
                   example |-> data])
      [] OTHER -> Doc([type |-> Str("string")])

\* The examples of a request or response body: sanitized, actual, types.
BodyExamples(part) ==
    Doc([sanitized |-> part.fields.body,
         actual |-> IF Truthy(part.fields.bodyActual) THEN part.fields.bodyActual
                    ELSE Undefined,
         types |-> IF Truthy(part.fields.bodyTypes) THEN part.fields.bodyTypes
                   ELSE Undefined])

GenerateRequestBody(g, request) ==
    IF ~Truthy(request.fields.body) \/ KeyCount(request.fields.body) = 0 THEN Null
    ELSE Doc([contentType |-> IF Truthy(request.fields.contentType)
                              THEN request.fields.contentType
                              ELSE Str("application/json"),
              schema |-> GenerateSchemaFromData(request.fields.body),
              examples |-> IF g.includeExamples THEN BodyExamples(request) ELSE Undefined,
              required |-> Bool(TRUE)])

\* generateResponseContent; no response of the model carries a content-type
\* header, so the content type is the default.
GenerateResponseContent(g, response) ==
    IF ~Truthy(response.fields.body)
    THEN Doc([contentType |-> Str("application/json"),
              schema |-> Doc([type |-> Str("string")])])
    ELSE Doc([contentType |-> Str("application/json"),
              schema |-> GenerateSchemaFromData(response.fields.body),
              examples |-> IF g.includeExamples THEN BodyExamples(response) ELSE Undefined])

\* generateResponses: the entry under the status code, and whether the
\* fixed '4xx' and '5xx' entries are added.
GenerateResponses(g, response) ==
    Doc([statusCode |-> response.fields.statusCode,
         content |-> GenerateResponseContent(g, response),
         headers |-> JArr([i \in 1..Len(response.fields.headers.entries) |->
                             CStr(response.fields.headers.entries[i].k)]),
         clientError |-> Bool(response.fields.statusCode.n >= 400),
         serverError |-> Bool(response.fields.statusCode.n >= 500)])

sXAuthToken == <<"x","-","a","u","t","h","-","t","o","k","e","n">>
sAccept == <<"a","c","c","e","p","t">>
RelevantHeaders == {sAuthorization, sXApiKey, sXAuthToken, sContentType, sAccept}

\* generateParameters: the header parameters (the records hold no params
\* and no query).
GenerateParameters(request) ==
    LET relevant == SelectSeq(request.fields.headers.entries,
                      LAMBDA e : \/ ToLowerCase(e.k) \in RelevantHeaders
                                 \/ /\ Len(e.k) >= 2
                                    /\ SubSeq(ToLowerCase(e.k), 1, 2) = <<"x","-">>)
    IN JArr([i \in 1..Len(relevant) |->
               Doc([name |-> CStr(relevant[i].k), in |-> Str("header")])])

GenerateTags(g, request) ==
    IF g.groupByPath /\ FirstPart(request.fields.path.c, 1) # << >>
    THEN JArr(<<CStr(FirstPart(request.fields.path.c, 1))>>)
    ELSE JArr(<<Str("API")>>)

GenerateSecurity(request) ==
    IF Truthy(JGet(request.fields.headers, sAuthorization))
    THEN JArr(<<Str("bearerAuth")>>)
    ELSE JArr(<< >>)

\* generateOperationDescription: the parts the text is made of.
GenerateOperationDescription(endpointData) ==
    Doc([method |-> CStr(ToUpperCase(endpointData.fields.request.fields.method.c)),
         path |-> endpointData.fields.request.fields.path,
         statusCode |-> endpointData.fields.response.fields.statusCode,
         responseTime |-> IF Truthy(endpointData.fields.response.fields.duration)
                          THEN endpointData.fields.response.fields.duration
                          ELSE Undefined,
         lastCaptured |-> IF Truthy(endpointData.fields.metadata.fields.capturedAt)
                          THEN endpointData.fields.metadata.fields.capturedAt
                          ELSE Undefined])

OrElse(v, d) == IF Truthy(v) THEN v ELSE d

\* operation['x-actual-data'], after both blocks
ActualData(endpointData) ==
    LET request == endpointData.fields.request.fields
        response == endpointData.fields.response.fields
        fromRequest == Truthy(request.bodyActual) \/ Truthy(request.hasSensitiveData)
        fromResponse == Truthy(response.bodyActual) \/ Truthy(response.hasSensitiveData)
        none == [f \in {"requestBody", "hasSensitiveData", "sensitiveFields", "dataTypes",
                        "capturedAt", "responseBody", "responseHasSensitiveData",
                        "responseSensitiveFields", "responseDataTypes"} |-> Undefined]
        first == IF fromRequest
                 THEN [none EXCEPT
                         !.requestBody = OrElse(request.bodyActual, Null),
                         !.hasSensitiveData = OrElse(request.hasSensitiveData, Bool(FALSE)),
                         !.sensitiveFields = OrElse(request.sensitiveFields, JArr(<< >>)),
                         !.dataTypes = OrElse(request.bodyTypes, Null),
                         !.capturedAt = endpointData.fields.metadata.fields.capturedAt]
                 ELSE none
        second == IF fromResponse
                  THEN [first EXCEPT
                          !.responseBody = OrElse(response.bodyActual, Null),
                          !.responseHasSensitiveData =
                              OrElse(response.hasSensitiveData, Bool(FALSE)),
                          !.responseSensitiveFields =
                              OrElse(response.sensitiveFields, JArr(<< >>)),
                          !.responseDataTypes = OrElse(response.bodyTypes, Null)]
                  ELSE first
    IN IF fromRequest \/ fromResponse THEN Doc(second) ELSE Undefined

\* The operation id: method.toLowerCase() and the path it is derived from.
GenerateOperationId(request) ==
    Doc([method |-> CStr(ToLowerCase(request.fields.method.c)),
         path |-> request.fields.path])

ConvertToOpenAPIPathItem(g, endpointData) ==
    LET request == endpointData.fields.request
        requestBody == GenerateRequestBody(g, request)
    IN Doc([summary |-> Doc([method |-> CStr(ToUpperCase(request.fields.method.c)),
                             path |-> request.fields.path]),
            description |-> GenerateOperationDescription(endpointData),
            operationId |-> GenerateOperationId(request),
            tags |-> GenerateTags(g, request),
            parameters |-> GenerateParameters(request),
            responses |-> GenerateResponses(g, endpointData.fields.response),
            security |-> GenerateSecurity(request),
            deprecated |-> Bool(FALSE),
            xActualData |-> ActualData(endpointData),
            requestBody |-> IF Truthy(requestBody) THEN requestBody ELSE Undefined])

\* hashData of calculateEndpointHash
HashData(endpointData) ==
    Doc([method |-> endpointData.fields.request.fields.method,
         path |-> endpointData.fields.request.fields.path,
         headers |-> endpointData.fields.request.fields.headers,
         body |-> endpointData.fields.request.fields.body,
         response |-> endpointData.fields.response])

\* Mutant: the response is left out of what is digested.
HashWithoutResponse(endpointData) ==
    Stringify(Doc([HashData(endpointData).fields EXCEPT !.response = Undefined]))

\* calculateEndpointHash: the JSON text that is digested.  MD5 is taken to
\* be injective on the texts of a run, so the digest is the text.
CalculateEndpointHash(endpointData) == Stringify(HashData(endpointData))

---------------------------------------------------------------------------
(* OpenAPIGenerator: the document, addEndpoint, saveSpec *)

NameChars ==
    { UpperChars[i] : i \in 1..26 } \cup { LowerChars[i] : i \in 1..26 }
    \cup Digits \cup {"-", "_"}

\* name.replace(/[^a-zA-Z0-9-_]/g, '_')
SanitizeName(name) ==
    [i \in 1..Len(name) |-> IF name[i] \in NameChars THEN name[i] ELSE "_"]

\* getOutputPath() without a filename, at clock reading t: the directory
\* (options.outputDir, as its path components), the base name and, outside
\* single-file mode, the timestamp, which has a resolution of a second.
GetOutputPath(g, t) ==
    [dir |-> g.outputDir,
     base |-> SanitizeName(g.title),
     stamp |-> IF g.singleFileMode THEN Undefined ELSE Num(t \div 1000)]

CreateBaseSpec(g) ==
    Doc([openapi |-> Str("3.0.0"),
         info |-> Doc([title |-> CStr(g.title), version |-> Str("1.0.0")]),
         servers |-> JArr(<<Doc([url |-> Str("http://localhost:3000")])>>),
         paths |-> JObj(<< >>),
         components |-> Doc([schemas |-> JObj(<< >>), securitySchemes |-> JObj(<< >>)]),
         tags |-> JArr(<< >>),
         security |-> JArr(<< >>)])

\* addTagForPath(path): this.spec.tags afterwards
AddTagForPath(tags, path) ==
    LET tagName == FirstPart(path, 1)
    IN IF tagName # << >>
          /\ ~\E i \in 1..Len(tags.items) : tags.items[i].fields.name = CStr(tagName)
       THEN JArr(Append(tags.items, Doc([name |-> CStr(tagName)])))
       ELSE tags

\* fs.writeFileSync(file, text)
WriteFile(d, file, text) ==
    [f \in DOMAIN d \cup {file} |-> IF f = file THEN text ELSE d[f]]

\* Mutant: the operation is stored under the method as the record spells it.
OperationKeyAsWritten(method) == method

\* The key of the operation in its path item: method.toLowerCase().
OperationKey(method) == ToLowerCase(method)

\* Mutant: no call is taken to repeat the one before.
HashNeverUnchanged(g, hashes, endpointKey, currentHash) == FALSE

\* options.detectChanges && endpointHashes.get(endpointKey) === currentHash
HashUnchanged(g, hashes, endpointKey, currentHash) ==
    /\ g.detectChanges
    /\ endpointKey \in DOMAIN hashes
    /\ hashes[endpointKey] = currentHash

\* normalizedEndpointData of addEndpoint: the record with the normalized
\* path as request.path and the raw path as request.originalPath
NormalizedEndpointData(endpointData) ==
    Doc([endpointData.fields EXCEPT
           !.request = Doc([@.fields EXCEPT
               !.path = CStr(NormalizePathForParameterization(
                                 endpointData.fields.request.fields.path.c)),
               !.originalPath = endpointData.fields.request.fields.path])])

\* saveSpec() at clock reading t of the document doc, on the files d: the
\* write succeeds (ok) or the file system refuses it, and then saveSpec logs
\* and throws the error again.
SaveSpec(g, d, doc, t, ok) ==
    IF ok THEN [thrown |-> FALSE, disk |-> WriteFile(d, GetOutputPath(g, t), Stringify(doc))]
    ELSE [thrown |-> TRUE, disk |-> d]

\* Mutant: a failed save puts the document back as it was before the call.
RollBackOnFailure(g, st, spec2, saved) ==
    IF g.autoSave /\ saved.thrown THEN st.spec ELSE spec2

\* this.spec when addEndpoint has ended: the operation stays where it was
\* put, whatever became of the save.
SpecAfterSave(g, st, spec2, saved) == spec2

\* this.endpointHashes.set(endpointKey, currentHash)
SetHash(hashes, endpointKey, currentHash) ==
    [k \in DOMAIN hashes \cup {endpointKey} |->
       IF k = endpointKey THEN currentHash ELSE hashes[k]]

\* Mutant: the hash of a call is recorded only when its save succeeded.
HashesForgottenOnFailure(g, st, hashes2, saved) ==
    IF g.autoSave /\ saved.thrown THEN st.endpointHashes ELSE hashes2

\* this.endpointHashes when addEndpoint has ended: the hash was set before
\* the save and stays, whatever became of the save.
HashesAfterSave(g, st, hashes2, saved) == hashes2

\* The record has no request, or its request has no path
\* (normalizePathForParameterization calls replace on it) or no method
\* (convertToOpenAPIPathItem calls toLowerCase on it): a TypeError is raised
\* before anything is stored.
LacksMethodOrPath(endpointData) ==
    \/ endpointData.fields.request = Undefined
    \/ endpointData.fields.request.fields.path = Undefined
    \/ endpointData.fields.request.fields.method = Undefined

\* addEndpoint(endpointData) at clock reading t, on the generator state
\* st = [spec, endpointHashes, disk, writes] with the local file system as
\* store, whose write succeeds or not (ok): the state afterwards (writes
\* counts the writes asked of the file system), with the key, the hash, the
\* path item built (ret, which the call returns unless it ends with an
\* error), whether it returned at the change-detection check (skipped) and
\* whether it ended with an error (thrown): the promise of the call rejects.
AddEndpoint(g, st, endpointData, t, ok) ==
  IF LacksMethodOrPath(endpointData)
  THEN [spec |-> st.spec, endpointHashes |-> st.endpointHashes,
        disk |-> st.disk, writes |-> st.writes,
        key |-> Undefined, hash |-> Undefined,
        ret |-> Undefined, skipped |-> FALSE, thrown |-> TRUE]
  ELSE
    LET method == endpointData.fields.request.fields.method.c
        normalizedPath ==
            NormalizePathForParameterization(endpointData.fields.request.fields.path.c)
        normalizedEndpointData == NormalizedEndpointData(endpointData)
        pathItem == ConvertToOpenAPIPathItem(g, normalizedEndpointData)
        endpointKey == method \o <<":">> \o normalizedPath
        currentHash == CalculateEndpointHash(normalizedEndpointData)
        paths == st.spec.fields.paths
        item == IF Truthy(JGet(paths, normalizedPath)) THEN JGet(paths, normalizedPath)
                ELSE JObj(<< >>)
        spec2 == Doc([st.spec.fields EXCEPT
                        !.paths = JSet(paths, normalizedPath,
                                       JSet(item, OperationKey(method), pathItem)),
                        !.tags = IF g.groupByPath THEN AddTagForPath(@, normalizedPath)
                                 ELSE @])
        saved == SaveSpec(g, st.disk, spec2, t, ok)
        out0 == [spec |-> st.spec, endpointHashes |-> st.endpointHashes,
                 disk |-> st.disk, writes |-> st.writes,
                 key |-> endpointKey, hash |-> currentHash,
                 ret |-> pathItem, skipped |-> TRUE, thrown |-> FALSE]
    IN IF HashUnchanged(g, st.endpointHashes, endpointKey, currentHash)
       THEN out0
       ELSE [out0 EXCEPT
               !.skipped = FALSE,
               !.endpointHashes =
                   HashesAfterSave(g, st, SetHash(st.endpointHashes, endpointKey,
                                                  currentHash), saved),
               !.spec = SpecAfterSave(g, st, spec2, saved),
               !.disk = IF g.autoSave THEN saved.disk ELSE @,
               !.writes = IF g.autoSave THEN @ + 1 ELSE @,
               !.thrown = g.autoSave /\ saved.thrown]

---------------------------------------------------------------------------
(* The store runs: one EndpointCapture and one OpenAPIGenerator; each step
   captures one request/response pair and hands the record to addEndpoint. *)

MaxCalls == 2

sTitle == <<"A","P","I"," ","C","o","l","l","e","c","t","i","o","n">>
mLowerPost == <<"p","o","s","t">>
pUser4 == <<"/","u","/","4">>
pUser7Slash == <<"/","u","/","7","/">>
pDoubleSlash == <<"/","u","/","/">>
kId == <<"i","d">>

\* outputDir at its default: openapi-specs under the working directory
sOutputDir == <<"openapi-specs">>

\* The generators: the defaults, with change detection on or off.
GenPool ==
    { [title |-> sTitle, detectChanges |-> d, autoSave |-> TRUE, groupByPath |-> TRUE,
       includeExamples |-> TRUE, singleFileMode |-> TRUE, outputDir |-> sOutputDir] :
      d \in BOOLEAN }

\* The endpoints called: two raw paths of one normalized path, one method in
\* two spellings, and a path that ends in two slashes.
EndpointPool ==
    { [method |-> mPOST, path |-> pUser4], [method |-> mPOST, path |-> pUser7Slash],
      [method |-> mLowerPost, path |-> pUser4], [method |-> mPOST, path |-> pDoubleSlash] }
SecretValues == {Str("hunter1"), Str("hunter2")}
ResponseIds == {Num(7), Num(8)}
\* The bodies of an exchange: the secret sent and the id answered.
BodyPool ==
    { [secret |-> Str("hunter1"), id |-> Num(7)], [secret |-> Str("hunter2"), id |-> Num(7)],
      [secret |-> Str("hunter1"), id |-> Num(8)] }

\* The heap of one exchange: 1 is req.body, 2 is res.locals.responseBody.
ExchangeHeap(secret, id) ==
    <<Obj(<<[k |-> kName, v |-> Str("ann")], [k |-> kUserPassword, v |-> secret]>>),
      Obj(<<[k |-> kId, v |-> id]>>)>>

ExchangeRequest(method, path) ==
    [method |-> CStr(method), url |-> CStr(path), path |-> CStr(path),
     headers |-> List(<<[k |-> sAuthorization, v |-> Str("Bearer abc")]>>),
     body |-> Ref(1)]

ExchangeResponse == [statusCode |-> 200, headers |-> List(<< >>), body |-> Ref(2)]

\* The record of the exchange captured at clock reading t.
Exchange(o, method, path, secret, id, t) ==
    CaptureEndpointData(o, ExchangeHeap(secret, id), ExchangeRequest(method, path),
                        ExchangeResponse, t)

Init ==
    /\ mem = << >> /\ mem0 = << >> /\ req = Undefined /\ rpc = "idle" /\ out = Undefined
    /\ mw = Undefined
    /\ opts = [sensitiveHeaders |-> List(<<sAuthorization>>),
               sensitiveFields |-> List(<<sPassword>>)]
    /\ gen \in GenPool
    /\ spec = CreateBaseSpec(gen)
    /\ endpointHashes = [k \in {} |-> Undefined]
    /\ disk = [f \in {} |-> Undefined]
    /\ writes = 0
    /\ clock = 1
    /\ calls = 0
    /\ last = Undefined
    /\ manager = Undefined /\ collections = Undefined /\ mtimes = Undefined
    /\ pending = Undefined

\* For each (path, method) pair of the document, the hash of the record
\* that the Operation stored there was built from
BuiltFrom == IF calls = 0 THEN [q \in {} |-> Undefined] ELSE last.built

\* generator.addEndpoint(capture.captureEndpointData(req, res)), after the
\* clock has advanced by dt, on a file system that takes every write (the
\* refused writes are the subject of SpecSave)
AddEndpointCall ==
    /\ calls < MaxCalls
    /\ \E e \in EndpointPool, b \in BodyPool, dt \in 0..1 :
         \E endpointData \in {Exchange(Constructor(opts), e.method, e.path, b.secret, b.id,
                                       clock + dt)} :
           \E r \in {AddEndpoint(gen, [spec |-> spec, endpointHashes |-> endpointHashes,
                                       disk |-> disk, writes |-> writes],
                                 endpointData, clock + dt, TRUE)} :
              /\ clock' = clock + dt
              /\ spec' = r.spec
              /\ endpointHashes' = r.endpointHashes
              /\ disk' = r.disk
              /\ writes' = r.writes
              /\ last' = [input |-> [method |-> e.method, path |-> e.path,
                                      secret |-> b.secret, id |-> b.id, at |-> clock + dt],
                          before |-> IF calls = 0 THEN Undefined ELSE last.input,
                          pre |-> [spec |-> spec, disk |-> disk, writes |-> writes,
                                   endpointHashes |-> endpointHashes],
                          built |-> IF r.skipped THEN BuiltFrom
                                    ELSE SetHash(BuiltFrom,
                                                 [path |-> NormalizePathForParameterization(e.path),
                                                  method |-> ToLowerCase(e.method)],
                                                 r.hash),
                          key |-> r.key, ret |-> r.ret, skipped |-> r.skipped,
                          thrown |-> r.thrown, op |-> "addEndpoint"]
    /\ calls' = calls + 1
    /\ UNCHANGED gen
    /\ UNCHANGED <<captureVars, pending>>
    /\ UNCHANGED managerVars

Next == AddEndpointCall

Spec == Init /\ [][Next]_vars

---------------------------------------------------------------------------
(* The store on a file system that can refuse a write: addEndpoint and
   saveSpec called on one generator, each write taken or refused. *)

\* The generators: change detection and auto-save on or off.
SaveGenPool ==
    { [title |-> sTitle, detectChanges |-> d, autoSave |-> a, groupByPath |-> TRUE,
       includeExamples |-> TRUE, singleFileMode |-> TRUE, outputDir |-> sOutputDir] :
      d \in BOOLEAN, a \in BOOLEAN }

\* The endpoints called: two raw paths of one normalized path.
SaveEndpointPool ==
    { [method |-> mPOST, path |-> pUser4], [method |-> mPOST, path |-> pUser7Slash] }

SaveInit ==
    /\ mem = << >> /\ mem0 = << >> /\ req = Undefined /\ rpc = "idle" /\ out = Undefined
    /\ mw = Undefined
    /\ opts = [sensitiveHeaders |-> List(<<sAuthorization>>),
               sensitiveFields |-> List(<<sPassword>>)]
    /\ gen \in SaveGenPool
    /\ spec = CreateBaseSpec(gen)
    /\ endpointHashes = [k \in {} |-> Undefined]
    /\ disk = [f \in {} |-> Undefined]
    /\ writes = 0
    /\ clock = 1
    /\ calls = 0
    /\ last = Undefined
    /\ manager = Undefined /\ collections = Undefined /\ mtimes = Undefined
    /\ pending = Undefined

\* What the next call keeps of the call before it
PriorCall ==
    IF calls = 0 THEN Undefined
    ELSE [op |-> last.op, input |-> last.input, thrown |-> last.thrown,
          skipped |-> last.skipped]

\* await generator.addEndpoint(record): the write, if one is made, is taken
\* (ok) or refused
AddEndpointSaveCall ==
    /\ calls < MaxCalls
    /\ \E e \in SaveEndpointPool, b \in BodyPool, ok \in BOOLEAN :
         \E endpointData \in {Exchange(Constructor(opts), e.method, e.path, b.secret, b.id,
                                       clock)} :
           \E r \in {AddEndpoint(gen, [spec |-> spec, endpointHashes |-> endpointHashes,
                                       disk |-> disk, writes |-> writes],
                                 endpointData, clock, ok)} :
              /\ spec' = r.spec
              /\ endpointHashes' = r.endpointHashes
              /\ disk' = r.disk
              /\ writes' = r.writes
              /\ last' = [input |-> [method |-> e.method, path |-> e.path,
                                      secret |-> b.secret, id |-> b.id, at |-> clock],
                          before |-> Undefined,
                          pre |-> [spec |-> spec, disk |-> disk, writes |-> writes],
                          prior |-> PriorCall,
                          key |-> r.key, ret |-> r.ret, skipped |-> r.skipped,
                          thrown |-> r.thrown, op |-> "addEndpoint"]
    /\ calls' = calls + 1
    /\ UNCHANGED <<gen, clock>>
    /\ UNCHANGED <<captureVars, pending>>
    /\ UNCHANGED managerVars

\* await generator.saveSpec(): the write is taken (ok) or refused
SaveSpecCall ==
    /\ calls < MaxCalls
    /\ \E ok \in BOOLEAN :
         \E r \in {SaveSpec(gen, disk, spec, clock, ok)} :
            /\ disk' = r.disk
            /\ writes' = writes + 1
            /\ last' = [input |-> Undefined, before |-> Undefined,
                        pre |-> [spec |-> spec, disk |-> disk, writes |-> writes],
                        prior |-> PriorCall,
                        key |-> Undefined, ret |-> Undefined, skipped |-> FALSE,
                        thrown |-> r.thrown, op |-> "saveSpec"]
    /\ calls' = calls + 1
    /\ UNCHANGED <<gen, spec, endpointHashes, clock>>
    /\ UNCHANGED <<captureVars, pending>>
    /\ UNCHANGED managerVars

SaveNext == AddEndpointSaveCall \/ SaveSpecCall

SpecSave == SaveInit /\ [][SaveNext]_vars

---------------------------------------------------------------------------
(* Stores on an asynchronous storage delegate: two OpenAPIGenerators that
   share one storage object.  addEndpoint runs from its first line to the
   await of saveSpec in one turn of the event loop; storage.writeFile of
   saveSpec was then called with the text serialized in that turn, and the
   file changes when the write completes, in a later turn, or never. *)

sOrders == <<"O","r","d","e","r","s">>
pOrders9 == <<"/","o","/","9">>

\* The titles of the two stores
StoreTitles == {sTitle, sOrders}

\* The generators of the two stores: the defaults, change detection on or off
AsyncGenPool ==
    { [title |-> n, detectChanges |-> d, autoSave |-> TRUE, groupByPath |-> TRUE,
       includeExamples |-> TRUE, singleFileMode |-> TRUE, outputDir |-> sOutputDir] :
      n \in StoreTitles, d \in BOOLEAN }

\* The endpoints called
AsyncEndpointPool ==
    { [method |-> mPOST, path |-> pUser4], [method |-> mPOST, path |-> pOrders9] }

\* path.relative(options.outputDir, outputPath): the name the storage
\* delegate is given, the output path without the directory
RelativePath(g, t) == [GetOutputPath(g, t) EXCEPT !.dir = << >>]

\* Mutant: the document is merged when the write has been made, not before
\* the await.
DocumentUnmergedAtAwait(st, r) == st.spec

\* this.spec at the await of saveSpec, r being the outcome of the lines
\* before it
DocumentAtAwait(st, r) == r.spec

\* Mutant: the text is serialized when the write completes.
TextAtCompletion(w, cs) == Stringify(cs[w.store].spec)

\* The text a write puts in the file: specJson, serialized before
\* storage.writeFile was called
TextWritten(w, cs) == w.specJson

\* The writes in flight after the synchronous part of addEndpoint, of
\* outcome r and on the document doc, by the store named name: one more if
\* saveSpec was invoked (the call was not cut short), carrying the name
\* and the text computed at that moment (doc is kept beside it for
\* reference).
WritesAfterAwait(ws, g, name, st, r, doc, t, id) ==
    IF r.writes > st.writes
    THEN ws \cup {[id |-> id, store |-> name, file |-> RelativePath(g, t),
                   specJson |-> Stringify(doc), doc |-> doc]}
    ELSE ws

AsyncInit ==
    /\ mem = << >> /\ mem0 = << >> /\ req = Undefined /\ rpc = "idle" /\ out = Undefined
    /\ mw = Undefined
    /\ opts = [sensitiveHeaders |-> List(<<sAuthorization>>),
               sensitiveFields |-> List(<<sPassword>>)]
    /\ \E d \in BOOLEAN :
         gen = [n \in StoreTitles |->
                  CHOOSE g \in AsyncGenPool : g.title = n /\ g.detectChanges = d]
    /\ collections = [n \in StoreTitles |->
                        [spec |-> CreateBaseSpec(gen[n]),
                         endpointHashes |-> [k \in {} |-> Undefined]]]
    /\ spec = Undefined /\ endpointHashes = Undefined
    /\ disk = [f \in {} |-> Undefined]
    /\ pending = {}
    /\ writes = 0
    /\ clock = 1
    /\ calls = 0
    /\ last = [op |-> "new", done |-> << >>]
    /\ manager = Undefined /\ mtimes = Undefined

\* generator.addEndpoint(record) on one of the stores, not awaited by the
\* caller: the lines before the await run in this turn, whatever writes
\* are in flight; the file changes in WriteCompletes.
AsyncAddEndpointCall ==
    /\ calls < MaxCalls
    /\ \E name \in StoreTitles, e \in AsyncEndpointPool, secret \in SecretValues :
         \E st \in {[spec |-> collections[name].spec,
                     endpointHashes |-> collections[name].endpointHashes,
                     disk |-> [f \in {} |-> Undefined], writes |-> 0]} :
           \E r \in {AddEndpoint(gen[name], st,
                                 Exchange(Constructor(opts), e.method, e.path, secret,
                                          Num(7), clock),
                                 clock, TRUE)} :
             \E doc \in {DocumentAtAwait(st, r)} :
               /\ collections' = [collections EXCEPT
                                    ![name] = [spec |-> doc,
                                               endpointHashes |-> r.endpointHashes]]
               /\ pending' = WritesAfterAwait(pending, gen[name], name, st, r, doc,
                                              clock, calls + 1)
               /\ last' = [op |-> "addEndpoint", store |-> name,
                           input |-> [method |-> e.method, path |-> e.path],
                           pre |-> [collections |-> collections, disk |-> disk,
                                    pending |-> pending],
                           key |-> r.key, hash |-> r.hash, ret |-> r.ret,
                           skipped |-> r.skipped, done |-> last.done]
    /\ calls' = calls + 1
    /\ UNCHANGED <<gen, spec, endpointHashes, disk, writes, clock>>
    /\ UNCHANGED captureVars
    /\ UNCHANGED <<manager, mtimes>>

\* A write in flight completes: the storage delegate puts the text in the
\* file and the promise that saveSpec awaits resolves.  Nothing orders the
\* writes in flight, and nothing makes one complete.
WriteCompletes ==
    /\ \E w \in pending :
         /\ disk' = WriteFile(disk, w.file, TextWritten(w, collections))
         /\ pending' = pending \ {w}
         /\ last' = [op |-> "written", write |-> w,
                     pre |-> [collections |-> collections, disk |-> disk,
                              pending |-> pending],
                     done |-> Append(last.done, w.id)]
    /\ writes' = writes + 1
    /\ UNCHANGED <<gen, spec, endpointHashes, clock, calls, collections>>
    /\ UNCHANGED captureVars
    /\ UNCHANGED <<manager, mtimes>>

AsyncNext == AsyncAddEndpointCall \/ WriteCompletes

SpecAsync == AsyncInit /\ [][AsyncNext]_vars

---------------------------------------------------------------------------
(* CollectionManager: the registry of generators, loading, backups,
   addEndpoint and addEndpointWithRules *)

sMainAPI == <<"M","a","i","n"," ","A","P","I">>
sBackups == <<"backups">>
sVersions == <<"versions">>
sBackupInfix == <<"_","b","a","c","k","u","p","_">>
sLatest == <<"_","l","a","t","e","s","t">>

\* String.prototype.startsWith
StartsWith(s, prefix) ==
    Len(prefix) <= Len(s) /\ SubSeq(s, 1, Len(prefix)) = prefix

\* collectionOptions of getCollection(name): defaultCollectionOptions, whose
\* title is 'API Collection' for every name, and the output directory
CollectionOptions(m, name) ==
    [title |-> sTitle, detectChanges |-> m.detectChanges, autoSave |-> TRUE,
     groupByPath |-> TRUE, includeExamples |-> TRUE,
     singleFileMode |-> m.singleFileMode,
     outputDir |-> IF m.singleFileMode THEN m.baseDir
                   ELSE Append(m.baseDir, SanitizeName(name))]

\* existingPath of getCollection(name)
ExistingPath(m, name) ==
    IF m.singleFileMode
    THEN [dir |-> m.baseDir, base |-> SanitizeName(name), stamp |-> Undefined]
    ELSE [dir |-> Append(m.baseDir, SanitizeName(name)),
          base |-> SanitizeName(name) \o sLatest, stamp |-> Undefined]

\* A file whose text is not JSON.
Garbage == [t |-> "text", s |-> "{"]

\* JSON.parse(text): the value, or that it threw.  A JSON text is held as
\* the tree it denotes, so parsing it gives that tree.
Parse(text) ==
    IF text.t = "text" THEN [thrown |-> TRUE, value |-> Undefined]
    ELSE [thrown |-> FALSE, value |-> text]

\* { ...doc, ...specData }: the keys of specData replace those of doc; a
\* value that is no object (null, a number) has no keys to spread.
SpreadOver(doc, specData) ==
    IF specData.t # "doc" THEN doc
    ELSE Doc([f \in DOMAIN doc.fields \cup DOMAIN specData.fields |->
                IF f \in DOMAIN specData.fields THEN specData.fields[f]
                ELSE doc.fields[f]])

\* Mutant: the parsed file becomes the document as it is.
LoadSpecWhole(doc, d, filePath) ==
    IF filePath \notin DOMAIN d \/ Parse(d[filePath]).thrown THEN doc
    ELSE Parse(d[filePath]).value

\* loadSpec(filePath) on the document doc: this.spec afterwards.  Every
\* error is caught and logged.
LoadSpec(doc, d, filePath) ==
    IF filePath \notin DOMAIN d THEN doc
    ELSE LET parsed == Parse(d[filePath])
         IN IF parsed.thrown THEN doc ELSE SpreadOver(doc, parsed.value)

\* this.collections.set(name, generator)
SetCollection(cs, name, generator) ==
    [n \in DOMAIN cs \cup {name} |-> IF n = name THEN generator ELSE cs[n]]

\* getCollection(name): this.collections afterwards
GetCollection(m, cs, d, name) ==
    IF name \in DOMAIN cs THEN cs
    ELSE LET g == CollectionOptions(m, name)
             generator == [g |-> g,
                           spec |-> LoadSpec(CreateBaseSpec(g), d, ExistingPath(m, name)),
                           endpointHashes |-> [k \in {} |-> Undefined],
                           metadata |-> Undefined]
         IN SetCollection(cs, name, generator)

\* The backup file of collection name written at clock reading t; the
\* timestamp of its name has a resolution of a second.
BackupFile(name, t) ==
    [dir |-> sBackups, base |-> SanitizeName(name) \o sBackupInfix, stamp |-> Num(t \div 1000)]

\* The files cleanOldBackups(name) lists: those of the backup directory
\* whose name starts with the sanitized name and '_backup_'.
BackupFilesOf(d, name) ==
    { f \in DOMAIN d : f.dir = sBackups
                       /\ StartsWith(f.base, SanitizeName(name) \o sBackupInfix) }

\* Mutant: no backup is removed.
KeepEveryBackup(m, mt, files) == files

\* The files cleanOldBackups keeps: the first maxBackups of the list sorted
\* by modification time, latest first.
KeptBackups(m, mt, files) ==
    IF Cardinality(files) > m.maxBackups
    THEN CHOOSE kept \in SUBSET files :
            /\ Cardinality(kept) = m.maxBackups
            /\ \A k \in kept : \A f \in files \ kept : mt[k] >= mt[f]
    ELSE files

\* cleanOldBackups(name) on st = [collections, disk, writes, mtimes]
CleanOldBackups(m, st, name) ==
    LET files == BackupFilesOf(st.disk, name)
        gone == files \ KeptBackups(m, st.mtimes, files)
    IN [st EXCEPT !.disk = [f \in DOMAIN st.disk \ gone |-> st.disk[f]],
                  !.mtimes = [f \in DOMAIN st.mtimes \ gone |-> st.mtimes[f]]]

\* createBackup(name) at clock reading t; the file system takes the write
\* (ok) or refuses it, and then the error is caught and logged.
CreateBackup(m, st, name, t, ok) ==
    IF name \notin DOMAIN st.collections THEN st
    ELSE IF ~ok THEN [st EXCEPT !.writes = @ + 1]
    ELSE LET file == BackupFile(name, t)
             written ==
                 [st EXCEPT
                    !.disk = WriteFile(@, file, Stringify(st.collections[name].spec)),
                    !.mtimes = [f \in DOMAIN st.mtimes \cup {file} |->
                                  IF f = file THEN t ELSE st.mtimes[f]],
                    !.writes = @ + 1]
         IN CleanOldBackups(m, written, name)

\* A promise as its caller finds it settled.
Promise(rejected, value) ==
    [t |-> "promise", rejected |-> rejected,
     value |-> IF rejected THEN Undefined ELSE value]

\* updateCollectionMetadata reads request.method and metadata.capturedAt.
MetadataThrows(endpointData) ==
    endpointData.fields.request = Undefined \/ endpointData.fields.metadata = Undefined

\* The end of CollectionManager.addEndpoint: collection.saveSpec() when
\* autoSave is on, and the promise of the generator's addEndpoint returned.
SaveAfterAdd(g, noted, name, t, ok, r) ==
    [st |-> IF g.autoSave
            THEN [noted EXCEPT
                    !.disk = SaveSpec(g, @, noted.collections[name].spec, t, ok).disk,
                    !.writes = @ + 1]
            ELSE noted,
     thrown |-> FALSE,
     ret |-> Promise(r.thrown, r.ret),
     skipped |-> r.skipped]

\* updateCollectionMetadata(name, endpointData) and what follows it; the
\* TypeError of a record without request or metadata is thrown to the caller.
UpdateCollectionMetadata(g, backed, name, endpointData, t, ok, r) ==
    IF MetadataThrows(endpointData)
    THEN [st |-> backed, thrown |-> TRUE, ret |-> Undefined, skipped |-> FALSE]
    ELSE SaveAfterAdd(g,
             [backed EXCEPT
                !.collections =
                    SetCollection(@, name,
                                  [@[name] EXCEPT !.metadata =
                       [method |-> endpointData.fields.request.fields.method,
                        path |-> endpointData.fields.request.fields.path,
                        timestamp |-> endpointData.fields.metadata.fields.capturedAt]])],
             name, t, ok, r)

\* The manager's state once the generator's addEndpoint has run as far as
\* it runs before the manager goes on: r is what it did.
AddedState(st, cs, name, r) ==
    [st EXCEPT
       !.collections = SetCollection(cs, name,
                                     [cs[name] EXCEPT
                                        !.spec = r.spec,
                                        !.endpointHashes = r.endpointHashes]),
       !.disk = r.disk,
       !.writes = r.writes]

\* The backup of addEndpoint (autoBackup outside single-file mode) and what
\* follows it.
BackUpAfterAdd(m, st, cs, name, endpointData, t, ok, r) ==
    UpdateCollectionMetadata(cs[name].g,
        IF m.autoBackup /\ ~m.singleFileMode
        THEN CreateBackup(m, AddedState(st, cs, name, r), name, t, ok)
        ELSE AddedState(st, cs, name, r),
        name, endpointData, t, ok, r)

\* collection.addEndpoint(endpointData) on the collection of cs, and what
\* follows it.
AddToCollection(m, st, cs, name, endpointData, t, ok) ==
    BackUpAfterAdd(m, st, cs, name, endpointData, t, ok,
                   AddEndpoint(cs[name].g,
                               [spec |-> cs[name].spec,
                                endpointHashes |-> cs[name].endpointHashes,
                                disk |-> st.disk, writes |-> st.writes],
                               endpointData, t, ok))

\* CollectionManager.addEndpoint(name, endpointData) at clock reading t on
\* st = [collections, disk, writes, mtimes]; ok: the file system takes the
\* writes of the call.  The generator's addEndpoint is async and is not
\* awaited: what it throws rejects the promise that the call returns, and
\* the same holds for the saveSpec that follows.
\* [st, thrown, ret, skipped]: thrown tells a synchronous error.
ManagerAddEndpoint(m, st, name, endpointData, t, ok) ==
    AddToCollection(m, st, GetCollection(m, st.collections, st.disk, name),
                    name, endpointData, t, ok)

\* getStatusCategory(statusCode)
GetStatusCategory(statusCode) ==
    IF statusCode >= 200 /\ statusCode < 300 THEN <<"S","u","c","c","e","s","s">>
    ELSE IF statusCode >= 300 /\ statusCode < 400 THEN <<"R","e","d","i","r","e","c","t">>
    ELSE IF statusCode >= 400 /\ statusCode < 500 THEN <<"C","l","i","e","n","t"," ","E","r","r","o","r">>
    ELSE IF statusCode >= 500 THEN <<"S","e","r","v","e","r"," ","E","r","r","o","r">>
    ELSE <<"U","n","k","n","o","w","n">>

\* `${v}` of a string or of undefined
TemplateText(v) == IF v = Undefined THEN <<"u","n","d","e","f","i","n","e","d">> ELSE v.c

\* The rules that fire read the request: method-based and path-based read
\* request.method and request.path.split, status-based reads the response.
AssignmentsThrow(endpointData, rules) ==
    \/ rules.methodBased /\ endpointData.fields.request = Undefined
    \/ rules.pathBased /\ (\/ endpointData.fields.request = Undefined
                           \/ endpointData.fields.request.fields.path = Undefined)
    \/ rules.statusBased /\ endpointData.fields.response = Undefined

\* Mutant: only the default collection is assigned.
AssignDefaultOnly(endpointData, rules) ==
    <<IF rules.defaultCollection # Undefined THEN rules.defaultCollection ELSE sMainAPI>>

\* determineCollectionAssignments(endpointData, rules): the collection names
\* in the order they are pushed (the options pushed with them are not read
\* by a generator, but for version, which is the default version here)
DetermineCollectionAssignments(endpointData, rules) ==
    LET request == endpointData.fields.request
        metadata == endpointData.fields.metadata
        pathPart == FirstPart(request.fields.path.c, 1)
    IN <<IF rules.defaultCollection # Undefined /\ rules.defaultCollection # << >>
         THEN rules.defaultCollection ELSE sMainAPI>>
       \o (IF rules.versionBased /\ metadata # Undefined
              /\ Truthy(metadata.fields.version)
           THEN <<<<"A","P","I"," ","v">> \o metadata.fields.version.c>> ELSE << >>)
       \o (IF rules.methodBased
           THEN <<TemplateText(request.fields.method) \o <<" ","E","n","d","p","o","i","n","t","s">>>> ELSE << >>)
       \o (IF rules.pathBased /\ pathPart # << >>
           THEN <<pathPart \o <<" ","A","P","I">>>> ELSE << >>)
       \o (IF rules.statusBased
           THEN <<GetStatusCategory(endpointData.fields.response.fields.statusCode.n)
                  \o <<" ","R","e","s","p","o","n","s","e","s">>>> ELSE << >>)
       \o (IF rules.environmentBased /\ rules.environment # Undefined
              /\ rules.environment # << >>
           THEN <<rules.environment \o <<" ","E","n","v","i","r","o","n","m","e","n","t">>>> ELSE << >>)
       \o (IF rules.custom # Undefined THEN rules.custom ELSE << >>)

\* The result pushed for a target: success is that addEndpoint returned.
TargetResult(collectionName, r) ==
    IF r.thrown
    THEN [collectionName |-> collectionName, pathItem |-> Undefined, success |-> FALSE]
    ELSE [collectionName |-> collectionName, pathItem |-> r.ret, success |-> TRUE]

\* assignments.forEach(...): addEndpoint for each target in turn, oks[i]
\* telling whether the writes for target i are taken
RECURSIVE AddToTargets(_, _, _, _, _, _, _)

\* The rest of the loop once addEndpoint for the first target did r.
AfterTarget(m, endpointData, targets, t, oks, results, r) ==
    AddToTargets(m, r.st, endpointData, Tail(targets), t, Tail(oks),
                 Append(results, TargetResult(Head(targets), r)))

AddToTargets(m, st, endpointData, targets, t, oks, results) ==
    IF targets = << >> THEN [st |-> st, results |-> results]
    ELSE AfterTarget(m, endpointData, targets, t, oks, results,
                     ManagerAddEndpoint(m, st, Head(targets), endpointData, t, Head(oks)))

\* What addEndpointWithRules returns once the loop is through.
RulesResult(r) == [st |-> r.st, thrown |-> FALSE, results |-> r.results]

\* addEndpointWithRules(endpointData, rules): [st, thrown, results]
AddEndpointWithRules(m, st, endpointData, rules, t, oks) ==
    IF AssignmentsThrow(endpointData, rules)
    THEN [st |-> st, thrown |-> TRUE, results |-> Undefined]
    ELSE RulesResult(AddToTargets(m, st, endpointData,
                                  DetermineCollectionAssignments(endpointData, rules),
                                  t, oks, << >>))

---------------------------------------------------------------------------
(* The manager runs: one CollectionManager in single-file mode; each step
   hands a record to addEndpoint or to addEndpointWithRules. *)

sMain == <<"M","a","i","n">>
sOrdersAPI == <<"o","r","d","e","r","s"," ","A","P","I">>
pOrders5 == <<"/","o","r","d","e","r","s","/","5">>

\* The managers: the defaults of the constructor, with change detection on
\* or off.
ManagerPool ==
    { [baseDir |-> sOutputDir, singleFileMode |-> TRUE, detectChanges |-> d,
       autoBackup |-> FALSE, maxBackups |-> 5] : d \in BOOLEAN }

\* The records handed in: a captured exchange, and the same record without
\* its method or without its path.
RecordKinds == {"order", "noMethod", "noPath"}
RecordOfKind(kind, order) ==
    CASE kind = "order" -> order
      [] kind = "noMethod" ->
           Doc([order.fields EXCEPT !.request = Doc([@.fields EXCEPT !.method = Undefined])])
      [] kind = "noPath" ->
           Doc([order.fields EXCEPT !.request = Doc([@.fields EXCEPT !.path = Undefined])])
ManagerRecord(kind, t) ==
    RecordOfKind(kind, Exchange(Constructor(opts), mPOST, pOrders5, Str("hunter1"), Num(7), t))

NoRules ==
    [defaultCollection |-> Undefined, versionBased |-> FALSE, methodBased |-> FALSE,
     pathBased |-> FALSE, statusBased |-> FALSE, environmentBased |-> FALSE,
     environment |-> Undefined, custom |-> Undefined]

\* The rules handed in: the default collection alone, with the path rule,
\* and with the method and status rules.
RulesPool ==
    { [NoRules EXCEPT !.defaultCollection = sMain],
      [NoRules EXCEPT !.defaultCollection = sMain, !.pathBased = TRUE],
      [NoRules EXCEPT !.defaultCollection = sMain, !.methodBased = TRUE,
                      !.statusBased = TRUE] }

ManagerState == [collections |-> collections, disk |-> disk, writes |-> writes,
                 mtimes |-> mtimes]

pOld == <<"/","o","l","d">>

\* A document saved earlier that holds two of the top-level keys.
PersistedPart ==
    Doc([info |-> Doc([title |-> CStr(sMain), version |-> Str("0.9.0")]),
         paths |-> JObj(<<[k |-> pOld, v |-> JObj(<< >>)]>>)])

\* What the file of collection Main holds when the manager is built: no
\* file, a text that is not JSON, the text null, a saved document.
PersistedPool(m) ==
    { [f \in {} |-> Undefined] }
    \cup { [f \in {ExistingPath(m, sMain)} |-> text] : text \in {Garbage, Null, PersistedPart} }

\* new CollectionManager(options), no collection referred to yet
ManagerStart(m, d) ==
    /\ mem = << >> /\ mem0 = << >> /\ req = Undefined /\ rpc = "idle" /\ out = Undefined
    /\ mw = Undefined
    /\ opts = [sensitiveHeaders |-> List(<<sAuthorization>>),
               sensitiveFields |-> List(<<sPassword>>)]
    /\ gen = Undefined /\ spec = Undefined /\ endpointHashes = Undefined
    /\ manager = m
    /\ collections = [n \in {} |-> Undefined]
    /\ disk = d
    /\ mtimes = [f \in {} |-> Undefined]
    /\ pending = Undefined
    /\ writes = 0
    /\ clock = 1
    /\ calls = 0
    /\ last = [op |-> "new", input |-> Undefined]

ManagerInit == \E m \in ManagerPool : \E d \in PersistedPool(m) : ManagerStart(m, d)

\* manager.getCollection(name)
GetCollectionCall ==
    /\ calls < MaxCalls
    /\ \E name \in {sMain, sOrdersAPI} :
         /\ collections' = GetCollection(manager, collections, disk, name)
         /\ last' = [op |-> "getCollection", input |-> [name |-> name],
                     before |-> last.input, pre |-> ManagerState, thrown |-> FALSE]
    /\ calls' = calls + 1
    /\ UNCHANGED <<gen, spec, endpointHashes, clock, manager, disk, writes, mtimes>>
    /\ UNCHANGED <<captureVars, pending>>

\* manager.addEndpoint(name, record)
ManagerAddEndpointCall ==
    /\ calls < MaxCalls
    /\ \E name \in {sMain, sOrdersAPI}, kind \in RecordKinds, ok \in BOOLEAN :
         \E r \in {ManagerAddEndpoint(manager, ManagerState, name,
                                      ManagerRecord(kind, clock), clock, ok)} :
            /\ collections' = r.st.collections
            /\ disk' = r.st.disk
            /\ writes' = r.st.writes
            /\ mtimes' = r.st.mtimes
            /\ last' = [op |-> "addEndpoint",
                        input |-> [name |-> name, kind |-> kind, ok |-> ok],
                        before |-> last.input,
                        pre |-> ManagerState,
                        thrown |-> r.thrown, ret |-> r.ret, skipped |-> r.skipped]
    /\ calls' = calls + 1
    /\ UNCHANGED <<gen, spec, endpointHashes, clock, manager>>
    /\ UNCHANGED <<captureVars, pending>>

ManagerNext == GetCollectionCall \/ ManagerAddEndpointCall

SpecManager == ManagerInit /\ [][ManagerNext]_vars

---------------------------------------------------------------------------
(* The rules run: one CollectionManager; each step hands a record and
   rules to addEndpointWithRules. *)

RulesInit == \E m \in ManagerPool : ManagerStart(m, [f \in {} |-> Undefined])

\* The number of targets of a record under rules (none when the
\* assignment throws).
TargetCount(endpointData, rules) ==
    IF AssignmentsThrow(endpointData, rules) THEN 0
    ELSE Len(DetermineCollectionAssignments(endpointData, rules))

\* The file system takes the writes made for every target, or refuses
\* those made for one of n targets.
WriteOutcomes(n) == { [i \in 1..n |-> i # refused] : refused \in 0..n }

\* manager.addEndpointWithRules(record, rules); oks[i]: the file system
\* takes the writes made for target i
AddEndpointWithRulesCall ==
    /\ calls < MaxCalls
    /\ \E rules \in RulesPool, kind \in RecordKinds :
         \E endpointData \in {ManagerRecord(kind, clock)} :
           \E oks \in WriteOutcomes(TargetCount(endpointData, rules)) :
             \E r \in {AddEndpointWithRules(manager, ManagerState, endpointData,
                                            rules, clock, oks)} :
                /\ collections' = r.st.collections
                /\ disk' = r.st.disk
                /\ writes' = r.st.writes
                /\ mtimes' = r.st.mtimes
                /\ last' = [op |-> "addEndpointWithRules",
                            input |-> [rules |-> rules, kind |-> kind, oks |-> oks],
                            before |-> last.input,
                            pre |-> ManagerState,
                            thrown |-> r.thrown, results |-> r.results]
    /\ calls' = calls + 1
    /\ UNCHANGED <<gen, spec, endpointHashes, clock, manager>>
    /\ UNCHANGED <<captureVars, pending>>

RulesNext == AddEndpointWithRulesCall

SpecRules == RulesInit /\ [][RulesNext]_vars

---------------------------------------------------------------------------
(* CollectionManager: createVersion and mergeCollections *)

sVersionInfix == <<"_","v">>
sV2 == <<"2",".","0">>
sMerged == <<"M","e","r","g","e","d">>

\* versionPath of createVersion(name, version)
VersionFile(name, version) ==
    [dir |-> sVersions, base |-> SanitizeName(name) \o sVersionInfix \o version,
     stamp |-> Undefined]

\* Mutant: the info block of the snapshot holds the version and the
\* timestamp alone.
VersionDataBareInfo(exported, version, t) ==
    SpreadOver(exported,
               Doc([info |-> Doc([version |-> CStr(version), versionCreatedAt |-> Num(t)])]))

\* versionData of createVersion: the exported document with version and
\* versionCreatedAt spread over its info block.  The ISO timestamp is held
\* as the clock reading it denotes.
VersionData(exported, version, t) ==
    SpreadOver(exported,
               Doc([info |-> SpreadOver(exported.fields.info,
                                        Doc([version |-> CStr(version),
                                             versionCreatedAt |-> Num(t)]))]))

\* createVersion(name, version) at clock reading t on
\* st = [collections, disk, writes, mtimes]; the error of an unregistered
\* name and that of a refused write are logged and thrown again.
CreateVersion(m, st, name, version, t, ok) ==
    IF name \notin DOMAIN st.collections
    THEN [st |-> st, thrown |-> TRUE, ret |-> Undefined]
    ELSE LET file == VersionFile(name, version)
             exported == Parse(Stringify(st.collections[name].spec)).value
             text == Stringify(VersionData(exported, version, t))
         IN IF ~ok
            THEN [st |-> [st EXCEPT !.writes = @ + 1], thrown |-> TRUE, ret |-> Undefined]
            ELSE [st |-> [st EXCEPT !.disk = WriteFile(@, file, text),
                                    !.mtimes = [f \in DOMAIN st.mtimes \cup {file} |->
                                                  IF f = file THEN t ELSE st.mtimes[f]],
                                    !.writes = @ + 1],
                  thrown |-> FALSE, ret |-> file]

\* Mutant: every path is prefixed.
PrefixedAlways(name, path, prefix) == <<"/">> \o name \o path

\* prefixedPath of mergeCollections
PrefixedPath(name, path, prefix) ==
    IF prefix THEN <<"/">> \o name \o path ELSE path

\* prefixedTag of mergeCollections
PrefixedTag(name, tagName, prefix) ==
    IF prefix THEN name \o <<"-">> \o tagName ELSE tagName

\* The paths of the merged document after those of one source are copied.
RECURSIVE MergePaths(_, _, _, _, _)
MergePaths(paths, entries, i, name, prefix) ==
    IF i > Len(entries) THEN paths
    ELSE MergePaths(JSet(paths, PrefixedPath(name, entries[i].k, prefix), entries[i].v),
                    entries, i + 1, name, prefix)

\* Object.assign(target, source) on objects whose keys are data
RECURSIVE ObjectAssign(_, _, _)
ObjectAssign(target, entries, i) ==
    IF i > Len(entries) THEN target
    ELSE ObjectAssign(JSet(target, entries[i].k, entries[i].v), entries, i + 1)

\* The components of the merged document after those of one source are
\* assigned, component type by component type.
MergeComponents(components, source) ==
    Doc([f \in DOMAIN components.fields \cup DOMAIN source.fields |->
           IF f \notin DOMAIN source.fields THEN components.fields[f]
           ELSE IF f \notin DOMAIN components.fields
                THEN ObjectAssign(JObj(<< >>), source.fields[f].entries, 1)
                ELSE ObjectAssign(components.fields[f], source.fields[f].entries, 1)])

\* The tags of the merged document after those of one source are pushed.
RECURSIVE MergeTags(_, _, _, _, _)
MergeTags(tags, items, i, name, prefix) ==
    IF i > Len(items) THEN tags
    ELSE LET prefixedTag == CStr(PrefixedTag(name, items[i].fields.name.c, prefix))
             existing == \E j \in 1..Len(tags.items) : tags.items[j].fields.name = prefixedTag
         IN MergeTags(IF existing THEN tags
                      ELSE JArr(Append(tags.items,
                                       Doc([items[i].fields EXCEPT !.name = prefixedTag]))),
                      items, i + 1, name, prefix)

\* mergedGenerator.spec after the sources names[i..] are merged into doc;
\* a name that is not registered is passed over.
RECURSIVE MergeSources(_, _, _, _, _)
MergeSources(doc, cs, names, i, prefix) ==
    IF i > Len(names) THEN doc
    ELSE IF names[i] \notin DOMAIN cs THEN MergeSources(doc, cs, names, i + 1, prefix)
    ELSE LET specData == Parse(Stringify(cs[names[i]].spec)).value
             has(f) == f \in DOMAIN specData.fields
             merged ==
                 Doc([doc.fields EXCEPT
                        !.paths = IF has("paths")
                                  THEN MergePaths(@, specData.fields.paths.entries, 1,
                                                  names[i], prefix)
                                  ELSE @,
                        !.components = IF has("components")
                                       THEN MergeComponents(@, specData.fields.components)
                                       ELSE @,
                        !.tags = IF has("tags")
                                 THEN MergeTags(@, specData.fields.tags.items, 1,
                                                names[i], prefix)
                                 ELSE @])
         IN MergeSources(merged, cs, names, i + 1, prefix)

\* The options of the generator mergeCollections builds.
MergedOptions(m, targetName) ==
    [CollectionOptions(m, targetName) EXCEPT
       !.title = targetName,
       !.outputDir = Append(m.baseDir, SanitizeName(targetName))]

\* mergeCollections(names, targetName, {prefixWithCollectionName: prefix})
\* at clock reading t; saveSpec is not awaited, so that a refused write
\* rejects a promise and the call goes on.
MergeCollections(m, st, names, targetName, prefix, t, ok) ==
    LET g == MergedOptions(m, targetName)
        doc == MergeSources(CreateBaseSpec(g), st.collections, names, 1, prefix)
        saved == SaveSpec(g, st.disk, doc, t, ok)
        mergedGenerator == [g |-> g, spec |-> doc,
                            endpointHashes |-> [k \in {} |-> Undefined],
                            metadata |-> Undefined]
    IN [st |-> [st EXCEPT !.disk = saved.disk,
                          !.writes = @ + 1,
                          !.collections = SetCollection(@, targetName, mergedGenerator)],
        thrown |-> FALSE,
        ret |-> mergedGenerator]

---------------------------------------------------------------------------
(* The archive runs: one CollectionManager that keeps one backup; each step
   hands a record to addEndpoint, or calls createBackup or createVersion.
   The merge runs: each step hands a record to addEndpoint or merges the
   two collections. *)

MaxArchiveCalls == 3

\* The managers: no backup is kept ({maxBackups: 0} is spread over the
\* default), or one.
ArchivePool ==
    { [baseDir |-> sOutputDir, singleFileMode |-> TRUE, detectChanges |-> TRUE,
       autoBackup |-> FALSE, maxBackups |-> n] : n \in {0, 1} }

\* The exchanges captured: a POST to one of two paths.
ArchivePaths == {pUser4, pOrders5}
ArchiveRecord(path, t) ==
    Exchange(Constructor(opts), mPOST, path, Str("hunter1"), Num(7), t)

ArchiveInit == \E m \in ArchivePool : ManagerStart(m, [f \in {} |-> Undefined])

\* manager.addEndpoint(name, record)
ArchiveAddEndpointCall ==
    /\ calls < MaxArchiveCalls
    /\ \E name \in {sMain, sOrdersAPI}, path \in ArchivePaths :
         \E r \in {ManagerAddEndpoint(manager, ManagerState, name,
                                      ArchiveRecord(path, clock), clock, TRUE)} :
            /\ collections' = r.st.collections
            /\ disk' = r.st.disk
            /\ writes' = r.st.writes
            /\ mtimes' = r.st.mtimes
            /\ last' = [op |-> "addEndpoint", input |-> [name |-> name, path |-> path],
                        pre |-> ManagerState, thrown |-> r.thrown]
    /\ calls' = calls + 1
    /\ UNCHANGED <<gen, spec, endpointHashes, clock, manager>>
    /\ UNCHANGED <<captureVars, pending>>

\* manager.createBackup(name), dt milliseconds after the call before it
CreateBackupCall ==
    /\ calls < MaxArchiveCalls
    /\ \E name \in {sMain, sOrdersAPI}, dt \in {0, 1000}, ok \in BOOLEAN :
         \E st \in {CreateBackup(manager, ManagerState, name, clock + dt, ok)} :
            /\ collections' = st.collections
            /\ disk' = st.disk
            /\ writes' = st.writes
            /\ mtimes' = st.mtimes
            /\ clock' = clock + dt
            /\ last' = [op |-> "createBackup", input |-> [name |-> name, ok |-> ok],
                        pre |-> ManagerState, thrown |-> FALSE]
    /\ calls' = calls + 1
    /\ UNCHANGED <<gen, spec, endpointHashes, manager>>
    /\ UNCHANGED <<captureVars, pending>>

\* manager.createVersion(name, '2.0')
CreateVersionCall ==
    /\ calls < MaxArchiveCalls
    /\ \E name \in {sMain, sOrdersAPI}, ok \in BOOLEAN :
         \E r \in {CreateVersion(manager, ManagerState, name, sV2, clock, ok)} :
            /\ collections' = r.st.collections
            /\ disk' = r.st.disk
            /\ writes' = r.st.writes
            /\ mtimes' = r.st.mtimes
            /\ last' = [op |-> "createVersion", input |-> [name |-> name, ok |-> ok],
                        pre |-> ManagerState, thrown |-> r.thrown, ret |-> r.ret]
    /\ calls' = calls + 1
    /\ UNCHANGED <<gen, spec, endpointHashes, clock, manager>>
    /\ UNCHANGED <<captureVars, pending>>

ArchiveNext == ArchiveAddEndpointCall \/ CreateBackupCall \/ CreateVersionCall

SpecArchive == ArchiveInit /\ [][ArchiveNext]_vars

\* manager.mergeCollections(['Main', 'orders API'], 'Merged', options)
MergeCollectionsCall ==
    /\ calls < MaxArchiveCalls
    /\ \E prefix \in BOOLEAN, ok \in BOOLEAN :
         \E r \in {MergeCollections(manager, ManagerState, <<sMain, sOrdersAPI>>,
                                    sMerged, prefix, clock, ok)} :
            /\ collections' = r.st.collections
            /\ disk' = r.st.disk
            /\ writes' = r.st.writes
            /\ mtimes' = r.st.mtimes
            /\ last' = [op |-> "mergeCollections", input |-> [prefix |-> prefix, ok |-> ok],
                        pre |-> ManagerState, thrown |-> r.thrown]
    /\ calls' = calls + 1
    /\ UNCHANGED <<gen, spec, endpointHashes, clock, manager>>
    /\ UNCHANGED <<captureVars, pending>>

MergeNext == ArchiveAddEndpointCall \/ MergeCollectionsCall

SpecMerge == ArchiveInit /\ [][MergeNext]_vars

---------------------------------------------------------------------------
(* The backup runs: one CollectionManager outside single-file mode with
   autoBackup on; each step hands a record to addEndpoint. *)

\* The managers: {singleFileMode: false} with change detection on or off;
\* autoBackup and maxBackups at their defaults
BackupPool ==
    { [baseDir |-> sOutputDir, singleFileMode |-> FALSE, detectChanges |-> d,
       autoBackup |-> TRUE, maxBackups |-> 5] : d \in BOOLEAN }

BackupInit == \E m \in BackupPool : ManagerStart(m, [f \in {} |-> Undefined])

\* manager.addEndpoint(name, record), dt milliseconds after the call before
\* it; the file system takes the writes of the call (ok) or refuses them
BackupAddEndpointCall ==
    /\ calls < MaxCalls
    /\ \E name \in {sMain, sOrdersAPI}, path \in ArchivePaths, dt \in {0, 1000},
          ok \in BOOLEAN :
         \E r \in {ManagerAddEndpoint(manager, ManagerState, name,
                                      ArchiveRecord(path, clock + dt), clock + dt, ok)} :
            /\ collections' = r.st.collections
            /\ disk' = r.st.disk
            /\ writes' = r.st.writes
            /\ mtimes' = r.st.mtimes
            /\ clock' = clock + dt
            /\ last' = [op |-> "addEndpoint",
                        input |-> [name |-> name, path |-> path, ok |-> ok],
                        pre |-> ManagerState, thrown |-> r.thrown, skipped |-> r.skipped]
    /\ calls' = calls + 1
    /\ UNCHANGED <<gen, spec, endpointHashes, manager>>
    /\ UNCHANGED <<captureVars, pending>>

BackupNext == BackupAddEndpointCall

SpecBackup == BackupInit /\ [][BackupNext]_vars

---------------------------------------------------------------------------
(* The middleware runs: one EndpointCapture with its CollectionManager (or
   none: generateOpenAPISpec false), one request.  The middleware is called
   and, when it returned, the response finishes. *)

\* The callback handed to createMiddleware: none, one that returns, one
\* that throws.
Callbacks == {"none", "returns", "throws"}

\* A body that holds itself.
CyclicHeap ==
    <<Obj(<<[k |-> kName, v |-> Ref(1)]>>), Obj(<<[k |-> kId, v |-> Num(7)]>>)>>

\* The requests: a POST with a body, the same without req.path (a request
\* of a host that does not set it), and one whose body holds itself.
MiddlewareRequests ==
    { [heap |-> ExchangeHeap(Str("hunter1"), Num(7)),
       req |-> ExchangeRequest(mPOST, pOrders5)],
      [heap |-> ExchangeHeap(Str("hunter1"), Num(7)),
       req |-> [ExchangeRequest(mPOST, pOrders5) EXCEPT !.path = Undefined]],
      [heap |-> CyclicHeap, req |-> ExchangeRequest(mPOST, pOrders5)] }

MiddlewareInit ==
    \E m \in ManagerPool \cup {Undefined}, rq \in MiddlewareRequests,
       cb \in Callbacks, rules \in RulesPool :
        /\ mem0 = rq.heap /\ mem = rq.heap /\ req = rq.req
        /\ rpc = "input" /\ out = Undefined
        /\ opts = [sensitiveHeaders |-> List(<<sAuthorization>>),
                   sensitiveFields |-> List(<<sPassword>>)]
        /\ mw = [callback |-> cb, rules |-> rules, nextCalls |-> 0,
                 propagated |-> FALSE, unhandled |-> FALSE]
        /\ gen = Undefined /\ spec = Undefined /\ endpointHashes = Undefined
        /\ manager = m
        /\ collections = [n \in {} |-> Undefined]
        /\ disk = [f \in {} |-> Undefined]
        /\ mtimes = [f \in {} |-> Undefined]
        /\ pending = Undefined
        /\ writes = 0 /\ clock = 1 /\ calls = 0
        /\ last = [op |-> "new", input |-> Undefined]

\* The middleware function (req, res, next): captureRequest, then the
\* wrappers of res.json and res.send and the 'finish' listener, then next().
\* What captureRequest throws leaves the function before next() is called.
MiddlewareCall ==
    /\ rpc = "input"
    /\ \E c \in {CaptureRequest(Constructor(opts), mem, req, clock)} :
         /\ mem' = c.mem
         /\ out' = [thrown |-> c.thrown, data |-> c.data]
         /\ IF c.thrown
            THEN /\ mw' = [mw EXCEPT !.propagated = TRUE]
                 /\ rpc' = "failed"
            ELSE /\ mw' = [mw EXCEPT !.nextCalls = @ + 1]
                 /\ rpc' = "served"
    /\ last' = [op |-> "middleware", input |-> Undefined]
    /\ UNCHANGED <<mem0, opts, req>>
    /\ UNCHANGED <<gen, spec, endpointHashes, disk, writes, clock, calls>>
    /\ UNCHANGED <<managerVars, pending>>

\* Some result of addEndpointWithRules holds a rejected promise.
SomeRejected(results) ==
    \E i \in 1..Len(results) :
        results[i].success /\ results[i].pathItem.rejected

\* The milliseconds between the call of the middleware and the end of the
\* response: the time the handler takes
HandlerTimes == {0, 5}

\* The 'finish' listener, dt milliseconds after the middleware was called:
\* captureEndpointData (its record is kept as req.capturedEndpointData),
\* then addEndpointWithRules inside try/catch when there is a manager, then
\* the callback.  oks[i]: the file system takes the writes made for target i.
FinishEvent ==
    /\ rpc = "served"
    /\ \E dt \in HandlerTimes :
       \E endpointData \in {CaptureEndpointData(Constructor(opts), mem, req,
                                                ExchangeResponse, clock + dt)} :
        \E oks \in WriteOutcomes(IF manager = Undefined THEN 0
                                 ELSE TargetCount(endpointData, mw.rules)) :
         \E r \in {IF manager = Undefined
                   THEN [st |-> ManagerState, thrown |-> FALSE, results |-> << >>]
                   ELSE AddEndpointWithRules(manager, ManagerState, endpointData,
                                             mw.rules, clock + dt, oks)} :
            /\ collections' = r.st.collections
            /\ disk' = r.st.disk
            /\ writes' = r.st.writes
            /\ mtimes' = r.st.mtimes
            /\ mw' = [mw EXCEPT
                        !.propagated = mw.callback = "throws",
                        !.unhandled = ~r.thrown /\ SomeRejected(r.results)]
            /\ clock' = clock + dt
            /\ last' = [op |-> "finish", input |-> [oks |-> oks],
                        pre |-> ManagerState, thrown |-> r.thrown,
                        results |-> r.results,
                        capturedEndpointData |-> endpointData]
    /\ rpc' = "finished"
    /\ UNCHANGED <<mem, mem0, opts, req, out>>
    /\ UNCHANGED <<gen, spec, endpointHashes, calls, manager, pending>>

MiddlewareNext == MiddlewareCall \/ FinishEvent

SpecMiddleware == MiddlewareInit /\ [][MiddlewareNext]_vars

---------------------------------------------------------------------------
(* Properties of the store (Spec) *)

\* The record addEndpoint works on (path normalized) for a captured exchange.
RecordOf(input) ==
    NormalizedEndpointData(Exchange(Constructor(opts), input.method, input.path,
                                    input.secret, input.id, input.at))

\* document.paths[path][method], or Undefined
OperationAt(doc, path, method) ==
    IF JHasKey(doc.fields.paths, path)
    THEN JGet(JGet(doc.fields.paths, path), method)
    ELSE Undefined

\* The (path, method) pairs of a document.
Pairs(doc) ==
    UNION { { [path |-> p, method |-> m] : m \in JKeys(JGet(doc.fields.paths, p)) } :
            p \in JKeys(doc.fields.paths) }

\* The pair of the latest call: normalized path and lowercase method.
LastPair ==
    [path |-> NormalizePathForParameterization(last.input.path),
     method |-> ToLowerCase(last.input.method)]

UniqueKeys(obj) ==
    \A i, j \in 1..Len(obj.entries) : obj.entries[i].k = obj.entries[j].k => i = j

\* The latest call repeats the hashed fields of the call before it.
HashedFieldsUnchanged ==
    /\ calls >= 2
    /\ HashData(RecordOf(last.input)) = HashData(RecordOf(last.before))

\* C1: with change detection enabled, when addEndpoint is called with a
\* record whose method, normalized path, headers, body and response are
\* those of the record of the call just before, the files hold the bytes
\* they held after that call and the call makes no write.
C1_Idempotent ==
    (gen.detectChanges /\ HashedFieldsUnchanged) =>
        (disk = last.pre.disk /\ writes = last.pre.writes)

\* A second call that repeats the first, after the first was saved.
C1_Witness ==
    /\ gen.detectChanges /\ gen.autoSave
    /\ HashedFieldsUnchanged
    /\ calls = 2 /\ writes = 1 /\ DOMAIN disk # {}

\* C2: after every addEndpoint call each (normalized path, lowercase method)
\* pair is a single entry of the document; the pair of a call that change
\* detection did not cut short holds the Operation built from that call's
\* record, the pair of a call that it did cut short holds what it held, and
\* every other pair holds what it held before the call.
C2_LastWriteWins ==
    calls >= 1 =>
        /\ UniqueKeys(spec.fields.paths)
        /\ \A p \in JKeys(spec.fields.paths) : UniqueKeys(JGet(spec.fields.paths, p))
        /\ OperationAt(spec, LastPair.path, LastPair.method) =
               IF last.skipped
               THEN OperationAt(last.pre.spec, LastPair.path, LastPair.method)
               ELSE ConvertToOpenAPIPathItem(gen, RecordOf(last.input))
        /\ \A q \in (Pairs(spec) \cup Pairs(last.pre.spec)) \ {LastPair} :
               OperationAt(spec, q.path, q.method) =
                   OperationAt(last.pre.spec, q.path, q.method)

\* A call replaced the Operation that an earlier call had stored for its pair.
C2_Witness ==
    /\ calls >= 2
    /\ ~last.skipped
    /\ OperationAt(last.pre.spec, LastPair.path, LastPair.method) # Undefined
    /\ OperationAt(spec, LastPair.path, LastPair.method) #
           OperationAt(last.pre.spec, LastPair.path, LastPair.method)

\* The write of the latest call was asked of the file system and refused.
SaveFailed ==
    /\ calls >= 1
    /\ writes = last.pre.writes + 1
    /\ disk = last.pre.disk
    /\ disk # WriteFile(last.pre.disk, GetOutputPath(gen, clock), Stringify(spec))

\* C11: when the write of an addEndpoint call with auto-save, or of a
\* saveSpec call, fails, the call ends with an error for its caller, the
\* files are as they were, and the document in memory is not rolled back:
\* after addEndpoint it holds the Operation built from the call's record at
\* its (normalized path, lowercase method) pair, after saveSpec it is the
\* document the call was to save. A call ends with an error only so.
C11_FailedSaveKeepsOperation ==
    calls >= 1 =>
        /\ SaveFailed => last.thrown
        /\ last.thrown =>
              /\ writes = last.pre.writes + 1 /\ disk = last.pre.disk
              /\ last.op = "saveSpec" => spec = last.pre.spec
              /\ last.op = "addEndpoint" =>
                    /\ gen.autoSave
                    /\ OperationAt(spec, LastPair.path, LastPair.method) = last.ret
                    /\ last.ret = ConvertToOpenAPIPathItem(gen, RecordOf(last.input))
        /\ (~last.thrown /\ writes # last.pre.writes) =>
              disk[GetOutputPath(gen, clock)] = Stringify(spec)

\* An addEndpoint call whose save failed after an earlier call was saved: the
\* file is one Operation behind the document.
C11_Witness ==
    /\ calls = 2 /\ gen.autoSave
    /\ last.op = "addEndpoint" /\ last.thrown /\ ~last.skipped
    /\ DOMAIN disk # {}
    /\ \E f \in DOMAIN disk : disk[f] # Stringify(spec)
    /\ Pairs(spec) # Pairs(last.pre.spec)

\* The call before the latest was an addEndpoint that stored its Operation
\* and whose save failed.
PriorSaveFailed ==
    /\ calls >= 2
    /\ last.prior.op = "addEndpoint" /\ last.prior.thrown /\ ~last.prior.skipped

\* The Operation of the latest call's pair in the file, if there is one
PersistedOperation ==
    IF GetOutputPath(gen, clock) \in DOMAIN disk
    THEN OperationAt(disk[GetOutputPath(gen, clock)], LastPair.path, LastPair.method)
    ELSE Undefined

\* C27: after an addEndpoint whose save failed, the same capture again is,
\* with change detection, cut short without a write, and the file stays
\* without the Operation that the document holds; a saveSpec that succeeds
\* then brings the file up to the document.
C27_FailedSaveIsNotRetried ==
    PriorSaveFailed =>
        /\ (last.op = "addEndpoint" /\ last.input = last.prior.input
              /\ gen.detectChanges) =>
              /\ last.skipped /\ ~last.thrown
              /\ writes = last.pre.writes /\ disk = last.pre.disk
              /\ spec = last.pre.spec
              /\ OperationAt(spec, LastPair.path, LastPair.method) # Undefined
              /\ PersistedOperation #
                    OperationAt(Stringify(spec), LastPair.path, LastPair.method)
        /\ (last.op = "saveSpec" /\ ~last.thrown) =>
              disk[GetOutputPath(gen, clock)] = Stringify(spec)

\* The capture whose save failed has come again and was cut short.
C27_Witness ==
    /\ PriorSaveFailed
    /\ last.op = "addEndpoint" /\ last.input = last.prior.input
    /\ gen.detectChanges /\ last.skipped
    /\ writes = 1

\* The latest call and the call before it are for the same method and
\* normalized path.
SameEndpoint ==
    /\ calls >= 2
    /\ last.input.method = last.before.method
    /\ NormalizePathForParameterization(last.input.path) =
           NormalizePathForParameterization(last.before.path)

\* C3: with change detection enabled, when two successive captures for the
\* same method and normalized path differ in response body, their hashes
\* differ, the second addEndpoint stores its Operation in place of the
\* first and, with auto-save, writes the document once more (the file
\* holds it when the file system takes the write).
C3_ResponseChangeWrites ==
    (/\ gen.detectChanges
     /\ SameEndpoint
     /\ RecordOf(last.input).fields.response.fields.body #
            RecordOf(last.before).fields.response.fields.body)
    => /\ CalculateEndpointHash(RecordOf(last.input)) #
              CalculateEndpointHash(RecordOf(last.before))
       /\ ~last.skipped
       /\ OperationAt(spec, LastPair.path, LastPair.method) = last.ret
       /\ gen.autoSave =>
              /\ writes = last.pre.writes + 1
              /\ ~last.thrown => disk[GetOutputPath(gen, last.input.at)] = Stringify(spec)

\* The second of two captures of an endpoint answered with another body, saved.
C3_Witness ==
    /\ gen.detectChanges /\ gen.autoSave
    /\ SameEndpoint
    /\ last.input.id # last.before.id
    /\ calls = 2 /\ writes = 2 /\ ~last.thrown

\* A record without its timing fields: the timestamps, the start and end
\* time, the duration and the capture time.
Untimed(endpointData) ==
    Doc([endpointData.fields EXCEPT
           !.request = Doc([@.fields EXCEPT !.timestamp = Undefined,
                                            !.startTime = Undefined]),
           !.response = Doc([@.fields EXCEPT !.timestamp = Undefined,
                                             !.endTime = Undefined,
                                             !.duration = Undefined]),
           !.metadata = Doc([@.fields EXCEPT !.capturedAt = Undefined])])

\* C4: with change detection enabled, when two successive captures of an
\* endpoint differ only in timing fields, their hashes are equal and the
\* second addEndpoint makes no write.
C4_TimingIgnored ==
    (/\ gen.detectChanges
     /\ calls >= 2
     /\ RecordOf(last.input) # RecordOf(last.before)
     /\ Untimed(RecordOf(last.input)) = Untimed(RecordOf(last.before)))
    => /\ CalculateEndpointHash(RecordOf(last.input)) =
              CalculateEndpointHash(RecordOf(last.before))
       /\ writes = last.pre.writes

EndsWithSlash(k) == Len(k) > 0 /\ k[Len(k)] = "/"

\* k has a part between slashes that is made of decimal digits only.
HasDigitSegment(k) ==
    \E i \in 1..Len(k) : \E j \in i..Len(k) :
        /\ \A n \in i..j : k[n] \in Digits
        /\ (i = 1 \/ k[i - 1] = "/")
        /\ (j = Len(k) \/ k[j + 1] = "/")

\* k has a slash with a decimal digit right after it.
HasSlashDigit(k) == \E i \in 1..(Len(k) - 1) : k[i] = "/" /\ k[i + 1] \in Digits

\* C5, as stated: every key of document.paths has no trailing slash and no
\* segment made of decimal digits only.
C5_KeysNormalized ==
    \A k \in JKeys(spec.fields.paths) : ~EndsWithSlash(k) /\ ~HasDigitSegment(k)

\* C5, amended: no key of document.paths has a slash followed by a decimal
\* digit, and a key that a call adds ends in a slash only if the raw path of
\* that call ended in two slashes.
C5_KeysNormalizedOnce ==
    /\ \A k \in JKeys(spec.fields.paths) : ~HasSlashDigit(k)
    /\ calls >= 1 =>
         \A k \in JKeys(spec.fields.paths) \ JKeys(last.pre.spec.fields.paths) :
             EndsWithSlash(k) =>
                 /\ Len(last.input.path) >= 2
                 /\ SubSeq(last.input.path, Len(last.input.path) - 1,
                           Len(last.input.path)) = <<"/", "/">>

\* Calls with a numeric segment and with two trailing slashes have been stored.
C5_Witness ==
    /\ \E k \in JKeys(spec.fields.paths) : EndsWithSlash(k)
    /\ \E k \in JKeys(spec.fields.paths) : \E i \in 1..Len(k) : k[i] = "{"
    /\ \E i \in 1..Len(last.input.path) : last.input.path[i] \in Digits

\* v, or a value inside the tree v, is the value leaf.
RECURSIVE Mentions(_, _)
Mentions(v, leaf) ==
    CASE v.t = "doc" -> \E f \in DOMAIN v.fields : Mentions(v.fields[f], leaf)
      [] v.t = "object" -> \E i \in 1..Len(v.entries) : Mentions(v.entries[i].v, leaf)
      [] v.t = "array" -> \E i \in 1..Len(v.items) : Mentions(v.items[i], leaf)
      [] OTHER -> v = leaf

\* C7: the persisted document does not depend on the value sent under a body
\* key that matches a sensitive field: the first call with any other value
\* in its place leaves the same files, and the value sent is nowhere in them.
C7_SecretIndependent ==
    /\ calls = 1 =>
         \A other \in SecretValues :
            AddEndpoint(gen, [spec |-> last.pre.spec,
                              endpointHashes |-> [k \in {} |-> Undefined],
                              disk |-> last.pre.disk, writes |-> last.pre.writes],
                        Exchange(Constructor(opts), last.input.method, last.input.path,
                                 other, last.input.id, last.input.at),
                        last.input.at, ~last.thrown).disk = disk
    /\ \A f \in DOMAIN disk : \A secret \in SecretValues : ~Mentions(disk[f], secret)

\* The latest call of the store returned at the change-detection check.
CutShort == calls >= 1 /\ last.skipped

\* A call that change detection cuts short leaves the document, its tags,
\* the hash table and the files exactly as they were.
CutShortChangesNothing ==
    CutShort =>
        /\ spec = last.pre.spec
        /\ endpointHashes = last.pre.endpointHashes
        /\ disk = last.pre.disk /\ writes = last.pre.writes

\* C21: a call that change detection cuts short returns the Operation
\* stored at its pair, and changes nothing.
C21_CutShortReturnsStored ==
    CutShort =>
        /\ last.ret = OperationAt(spec, LastPair.path, LastPair.method)
        /\ CutShortChangesNothing

\* The place of the colon in a key of the hash table: methods hold none
ColonAt(k) == CHOOSE i \in 1..Len(k) : k[i] = ":" /\ \A j \in 1..(i - 1) : k[j] # ":"

\* The (path, method) pair that a key of the hash table stands for
PairOfKey(k) ==
    [path |-> SubSeq(k, ColonAt(k) + 1, Len(k)),
     method |-> ToLowerCase(SubSeq(k, 1, ColonAt(k) - 1))]

\* C28: whenever the hash table maps a key to a hash, the Operation stored
\* at the key's normalized path and lowercase method was built from a
\* record with that hash.
C28_HashMatchesOperation ==
    calls >= 1 =>
        \A k \in DOMAIN endpointHashes :
            /\ PairOfKey(k) \in DOMAIN last.built
            /\ last.built[PairOfKey(k)] = endpointHashes[k]

---------------------------------------------------------------------------
(* Properties of addEndpointWithRules (SpecRules) *)

\* The latest call was addEndpointWithRules and returned its results.
RulesReturned == last.op = "addEndpointWithRules" /\ ~last.thrown

\* The record of the latest manager call.
LastRecord == ManagerRecord(last.input.kind, clock)

sPOSTEndpoints == <<"P","O","S","T"," ","E","n","d","p","o","i","n","t","s">>
sSuccessResponses == <<"S","u","c","c","e","s","s"," ","R","e","s","p","o","n","s","e","s">>

\* The Operation a collection holds for the record of the pool.
OrderOperation(cs, name) ==
    IF name \in DOMAIN cs
    THEN OperationAt(cs[name].spec, NormalizePathForParameterization(pOrders5), mLowerPost)
    ELSE Undefined

\* C12: addEndpointWithRules returns one result per assigned target, in
\* assignment order, and the result of a target tells success exactly when
\* the add and the writes made for that target succeeded.
C12_PerTargetResults ==
    RulesReturned =>
        LET targets == DetermineCollectionAssignments(LastRecord, last.input.rules)
        IN /\ Len(last.results) = Len(targets)
           /\ \A i \in 1..Len(targets) :
                 /\ last.results[i].collectionName = targets[i]
                 /\ last.results[i].success <=>
                        (~LacksMethodOrPath(LastRecord) /\ last.input.oks[i])

\* C16: addEndpointWithRules calls addEndpoint once for each target the rules
\* produce, the default collection first and then one target per rule that
\* fires: under {defaultCollection: "Main", pathBased: true} a record with
\* path /orders/5 goes to "Main" and to "orders API" and to no other
\* collection, and when the writes are taken both results tell success and
\* both collections hold the record's Operation; under the method and
\* status rules it goes to "Main", "POST Endpoints" and "Success Responses".
C16_RuleFanOut ==
    (RulesReturned /\ last.input.kind = "order") =>
        LET names == [i \in 1..Len(last.results) |-> last.results[i].collectionName]
        IN /\ names = <<sMain>>
                      \o (IF last.input.rules.methodBased THEN <<sPOSTEndpoints>> ELSE << >>)
                      \o (IF last.input.rules.pathBased THEN <<sOrdersAPI>> ELSE << >>)
                      \o (IF last.input.rules.statusBased THEN <<sSuccessResponses>>
                          ELSE << >>)
           /\ DOMAIN collections = DOMAIN last.pre.collections
                                     \cup { names[i] : i \in 1..Len(names) }
           /\ \A i \in 1..Len(names) :
                 last.input.oks[i] =>
                    /\ last.results[i].success
                    /\ ~last.results[i].pathItem.rejected
                    /\ OrderOperation(collections, names[i]) =
                           ConvertToOpenAPIPathItem(collections[names[i]].g,
                                                    NormalizedEndpointData(LastRecord))
           /\ \A n \in DOMAIN last.pre.collections \ { names[i] : i \in 1..Len(names) } :
                 collections[n] = last.pre.collections[n]

\* The first call, under the path rule with the writes taken: two results.
C16_Witness ==
    /\ RulesReturned /\ calls = 1
    /\ last.input.kind = "order" /\ last.input.rules.pathBased
    /\ last.input.oks = <<TRUE, TRUE>>
    /\ Len(last.results) = 2
    /\ last.results[1].success /\ last.results[2].success
    /\ DOMAIN collections = {sMain, sOrdersAPI}

---------------------------------------------------------------------------
(* Properties of the manager (SpecManager) *)

\* The latest call was manager.addEndpoint.
AddedByManager == last.op = "addEndpoint"

\* The documents of the collections that were registered before the latest
\* call are as they were.
DocumentsUnchanged ==
    \A n \in DOMAIN last.pre.collections :
        collections[n].spec = last.pre.collections[n].spec

\* C14: manager.addEndpoint with a record that lacks its method or its path
\* fails with an error thrown to the caller, and changes no document and no
\* file.
C14_MissingFieldsThrow ==
    (AddedByManager /\ LacksMethodOrPath(LastRecord)) =>
        /\ last.thrown
        /\ DocumentsUnchanged
        /\ disk = last.pre.disk /\ writes = last.pre.writes

\* The latest call hands to a collection the record that the call before it
\* handed to the same collection.
SameCaptureAgain ==
    /\ AddedByManager /\ calls >= 2
    /\ last.input.kind = "order"
    /\ "kind" \in DOMAIN last.before
    /\ "name" \in DOMAIN last.before
    /\ last.before.kind = "order"
    /\ last.before.name = last.input.name

\* C15: with detectChanges enabled, manager.addEndpoint for a capture
\* identical to the one last added to that collection leaves the document
\* as it was and asks no write of the file system.
C15_RepeatWritesNothing ==
    (manager.detectChanges /\ SameCaptureAgain) =>
        /\ DocumentsUnchanged
        /\ writes = last.pre.writes
        /\ disk = last.pre.disk

\* The latest call referred to a collection for the first time.
FirstReference ==
    /\ last.op \in {"getCollection", "addEndpoint"}
    /\ last.input.name \notin DOMAIN last.pre.collections

\* The file getCollection looks for, as it was before the latest call.
PersistedFile == ExistingPath(manager, last.input.name)
Persisted ==
    IF PersistedFile \in DOMAIN last.pre.disk THEN last.pre.disk[PersistedFile]
    ELSE Undefined

\* C18: the first reference to a collection does not throw because of the
\* file it loads, and after getCollection the document is the empty
\* document when the file is absent or is not JSON; when the file is a JSON
\* document, each of its top-level keys has the value of the file and every
\* other top-level key has the value of the empty document.
C18_LoadBestEffort ==
    FirstReference =>
        LET empty == CreateBaseSpec(CollectionOptions(manager, last.input.name))
            doc == collections[last.input.name].spec
        IN /\ last.op = "getCollection" => ~last.thrown
           /\ (last.op = "addEndpoint" /\ last.input.kind = "order") => ~last.thrown
           /\ last.op = "getCollection" =>
                 IF Persisted \in {Undefined, Garbage, Null}
                 THEN doc = empty
                 ELSE /\ DOMAIN doc.fields =
                            DOMAIN empty.fields \cup DOMAIN Persisted.fields
                      /\ \A f \in DOMAIN Persisted.fields :
                            doc.fields[f] = Persisted.fields[f]
                      /\ \A f \in DOMAIN empty.fields \ DOMAIN Persisted.fields :
                            doc.fields[f] = empty.fields[f]

\* getCollection found a saved document: its paths are loaded, the keys it
\* lacks are those of the empty document.
C18_Witness ==
    /\ FirstReference /\ last.op = "getCollection"
    /\ Persisted = PersistedPart
    /\ JKeys(collections[last.input.name].spec.fields.paths) = {pOld}
    /\ collections[last.input.name].spec.fields.openapi = Str("3.0.0")

---------------------------------------------------------------------------
(* Properties of backups and versions (SpecArchive) and of merging
   (SpecMerge) *)

\* The document of collection name as JSON.stringify writes it.
Exported(cs, name) == Stringify(cs[name].spec)

\* C19: createVersion leaves the collections (documents and hashes) as
\* they were; for a registered name whose write is taken, the file holds
\* the exported document, except that info.version is the version given
\* and info.versionCreatedAt is added; for an unregistered name the call
\* throws and no file changes.
C19_VersionIsSnapshot ==
    last.op = "createVersion" =>
        LET name == last.input.name
            file == VersionFile(name, sV2)
        IN /\ collections = last.pre.collections
           /\ name \notin DOMAIN collections =>
                 last.thrown /\ disk = last.pre.disk /\ writes = last.pre.writes
           /\ (name \in DOMAIN collections /\ ~last.input.ok) =>
                 last.thrown /\ disk = last.pre.disk
           /\ (name \in DOMAIN collections /\ last.input.ok) =>
                 LET live == Exported(collections, name)
                     snapshot == disk[file]
                 IN /\ ~last.thrown /\ last.ret = file
                    /\ \A f \in DOMAIN disk \ {file} :
                          f \in DOMAIN last.pre.disk /\ disk[f] = last.pre.disk[f]
                    /\ DOMAIN snapshot.fields = DOMAIN live.fields
                    /\ \A f \in DOMAIN live.fields \ {"info"} :
                          snapshot.fields[f] = live.fields[f]
                    /\ DOMAIN snapshot.fields.info.fields =
                          DOMAIN live.fields.info.fields \cup {"version", "versionCreatedAt"}
                    /\ \A f \in DOMAIN live.fields.info.fields \ {"version"} :
                          snapshot.fields.info.fields[f] = live.fields.info.fields[f]
                    /\ snapshot.fields.info.fields.version = CStr(sV2)
                    /\ snapshot.fields.info.fields.versionCreatedAt = Num(clock)

\* A version of a collection that holds an operation was written, and the
\* live document still carries its own version.
C19_Witness ==
    /\ last.op = "createVersion" /\ ~last.thrown
    /\ Pairs(collections[last.input.name].spec) # {}
    /\ Pairs(disk[VersionFile(last.input.name, sV2)]) =
          Pairs(collections[last.input.name].spec)
    /\ collections[last.input.name].spec.fields.info.fields.version = Str("1.0.0")

\* The backup files of the collection of the latest createBackup that
\* there were to keep: those before the call and the one it wrote.
BackupCandidates ==
    BackupFilesOf(last.pre.disk, last.input.name)
    \cup (IF last.input.ok /\ last.input.name \in DOMAIN collections
          THEN {BackupFile(last.input.name, clock)} ELSE {})

\* When a candidate was written last.
WrittenAt(f) ==
    IF last.input.ok /\ f = BackupFile(last.input.name, clock) THEN clock
    ELSE last.pre.mtimes[f]

\* C20: after createBackup the collection has at most maxBackups backup
\* files; they are the most recently written ones of those there were, as
\* many as the limit allows.
C20_BackupsBounded ==
    last.op = "createBackup" =>
        LET files == BackupFilesOf(disk, last.input.name)
        IN /\ Cardinality(files) <= manager.maxBackups
           /\ files \subseteq BackupCandidates
           /\ \A f \in files : \A g \in BackupCandidates \ files :
                 WrittenAt(f) >= WrittenAt(g)
           /\ Cardinality(BackupCandidates) <= manager.maxBackups =>
                 files = BackupCandidates
           /\ Cardinality(BackupCandidates) > manager.maxBackups =>
                 Cardinality(files) = manager.maxBackups
           /\ \A f \in files : disk[f] =
                 IF WrittenAt(f) = clock /\ last.input.ok
                 THEN Exported(collections, last.input.name)
                 ELSE last.pre.disk[f]

\* A second backup was written a second after the first: the first is gone.
C20_Witness ==
    /\ last.op = "createBackup" /\ last.input.ok
    /\ BackupFilesOf(last.pre.disk, last.input.name) # {}
    /\ BackupFilesOf(disk, last.input.name) = {BackupFile(last.input.name, clock)}
    /\ BackupFile(last.input.name, clock) \notin DOMAIN last.pre.disk

\* The registered sources of the latest merge.
MergeSourceNames == {sMain, sOrdersAPI} \cap DOMAIN last.pre.collections

\* The sources of the latest merge have no path key in common.
DistinctPathKeys ==
    \A a, b \in MergeSourceNames :
        a # b => JKeys(last.pre.collections[a].spec.fields.paths)
                 \cap JKeys(last.pre.collections[b].spec.fields.paths) = {}

\* C17: mergeCollections without prefix over registered sources with
\* pairwise distinct path keys registers under the target name a document
\* whose path keys are the union of those of the sources, and each path
\* holds the path item of its source as exported.
C17_MergeIsUnion ==
    (last.op = "mergeCollections" /\ ~last.input.prefix /\ DistinctPathKeys) =>
        /\ ~last.thrown
        /\ sMerged \in DOMAIN collections
        /\ JKeys(collections[sMerged].spec.fields.paths) =
              UNION { JKeys(last.pre.collections[n].spec.fields.paths) :
                      n \in MergeSourceNames }
        /\ \A n \in MergeSourceNames :
              \A p \in JKeys(last.pre.collections[n].spec.fields.paths) :
                 JGet(collections[sMerged].spec.fields.paths, p) =
                    JGet(Exported(last.pre.collections, n).fields.paths, p)
        /\ \A n \in MergeSourceNames : collections[n] = last.pre.collections[n]

\* Two collections with one path each were merged: the target has both.
C17_Witness ==
    /\ last.op = "mergeCollections" /\ ~last.input.prefix
    /\ MergeSourceNames = {sMain, sOrdersAPI}
    /\ DistinctPathKeys
    /\ Cardinality(JKeys(collections[sMerged].spec.fields.paths)) = 2
    /\ Cardinality(Pairs(collections[sMerged].spec)) = 2

\* The latest call handed a whole record to addEndpoint and its writes were
\* taken.
SavedByManager ==
    /\ last.op = "addEndpoint" /\ last.input.kind = "order"
    /\ last.input.ok /\ ~last.thrown

\* The file a new manager on the same base directory loads for the
\* collection of the latest call holds the document of that collection.
ReloadGivesSaved ==
    /\ ExistingPath(manager, last.input.name) \in DOMAIN disk
    /\ disk[ExistingPath(manager, last.input.name)] =
           Stringify(collections[last.input.name].spec)

\* The files that the other collections save to are as they were.
OtherFilesKept ==
    \A n \in DOMAIN last.pre.collections \ {last.input.name} :
        GetOutputPath(collections[n].g, clock) \in DOMAIN last.pre.disk =>
            disk[GetOutputPath(collections[n].g, clock)] =
                last.pre.disk[GetOutputPath(collections[n].g, clock)]

\* C26: in single-file mode, after addEndpoint by the manager the file that
\* a new manager loads for the collection holds the document saved, and
\* the files of the other collections are untouched.
C26_EachCollectionItsFile ==
    SavedByManager => ReloadGivesSaved /\ OtherFilesKept

---------------------------------------------------------------------------
(* Properties of the backup of addEndpoint (SpecBackup) *)

\* The document of the latest call's collection when the call began: the
\* one registered, or the one its first reference loads
DocumentBeforeCall ==
    GetCollection(manager, last.pre.collections, last.pre.disk,
                  last.input.name)[last.input.name].spec

\* The latest call wrote its backup.
BackupWritten ==
    /\ last.op = "addEndpoint" /\ last.input.ok /\ ~last.thrown
    /\ BackupFile(last.input.name, clock) \in DOMAIN disk

---------------------------------------------------------------------------
(* Properties of the middleware (SpecMiddleware) *)

\* C13: once the middleware was called for a request, next() was called
\* exactly once, and no error left the middleware or its 'finish' listener.
C13_MiddlewareContains ==
    rpc # "input" => mw.nextCalls = 1 /\ ~mw.propagated

\* The record that the 'finish' listener produced
FinishRecord == last.capturedEndpointData.fields

\* C30: the record produced when the response finishes has the reading of
\* the clock at the call of the middleware as request.startTime, and
\* response.duration is the time from then to the finish, never negative.
C30_DurationCoversHandler ==
    rpc = "finished" =>
        /\ FinishRecord.request.fields.startTime = Num(out.data.startTime)
        /\ FinishRecord.response.fields.duration =
               Num(FinishRecord.response.fields.endTime.n - out.data.startTime)
        /\ FinishRecord.response.fields.duration.n >= 0

---------------------------------------------------------------------------
(* Properties of the stores on an asynchronous delegate (SpecAsync) *)

MergedByCall == last.op = "addEndpoint" /\ ~last.skipped

\* The write that the latest call put in flight
IssuedByCall == { w \in pending : w.id = calls }

\* C23: a call's lines before the await run as one step: when it has
\* returned to the event loop the operation and its hash are in the store,
\* the other store, the files and the writes in flight are as they were,
\* whatever writes are in flight.
C23_MutationNeverWaits ==
    MergedByCall =>
         /\ OperationAt(collections[last.store].spec, LastPair.path, LastPair.method)
              = last.ret
         /\ last.key \in DOMAIN collections[last.store].endpointHashes
         /\ collections[last.store].endpointHashes[last.key] = last.hash
         /\ \A n \in StoreTitles \ {last.store} :
              collections[n] = last.pre.collections[n]
         /\ disk = last.pre.disk
         /\ last.pre.pending \subseteq pending

\* A call has changed a document while a write of that document was in
\* flight.
C23_Witness ==
    /\ MergedByCall
    /\ \E w \in last.pre.pending : w.store = last.store
    /\ collections[last.store] # last.pre.collections[last.store]

\* C24: the write a call puts in flight carries the whole document as the
\* call left it, and a write that completes leaves that text in its file
\* and the other files as they were: the file holds the text of the write
\* that finished last.
C24_LastFinishedWins ==
    /\ MergedByCall =>
         \E w \in IssuedByCall :
            /\ w.specJson = Stringify(collections[last.store].spec)
            /\ pending = last.pre.pending \cup {w}
    /\ last.op = "written" =>
         /\ last.write.file \in DOMAIN disk
         /\ disk[last.write.file] = Stringify(last.write.doc)
         /\ \A f \in DOMAIN disk \ {last.write.file} :
              f \in DOMAIN last.pre.disk /\ disk[f] = last.pre.disk[f]

\* Both writes of one store have completed, the second before the first,
\* and the file holds the document of the first call, not the store's.
C24_Witness ==
    /\ pending = {}
    /\ last.op = "written"
    /\ last.done = <<2, 1>>
    /\ disk[last.write.file] # Stringify(collections[last.write.store].spec)

---------------------------------------------------------------------------
(* Properties of path normalization (SpecNormalize) *)

\* The segments of p: the parts between its slashes, from position i on
\* (current is the part begun).
RECURSIVE Segments(_, _, _)
Segments(p, i, current) ==
    IF i > Len(p) THEN <<current>>
    ELSE IF p[i] = "/" THEN <<current>> \o Segments(p, i + 1, << >>)
    ELSE Segments(p, i + 1, Append(current, p[i]))

AllDigits(segment) ==
    segment # << >> /\ \A i \in 1..Len(segment) : segment[i] \in Digits

\* The segments joined by slashes, each segment after the first (those are
\* the ones a slash precedes) replaced by {id} when it is made of decimal
\* digits only.
RECURSIVE JoinSegments(_, _)
JoinSegments(segments, i) ==
    IF i > Len(segments) THEN << >>
    ELSE (IF i > 1 THEN <<"/">> ELSE << >>)
         \o (IF i > 1 /\ AllDigits(segments[i]) THEN <<"{","i","d","}">> ELSE segments[i])
         \o JoinSegments(segments, i + 1)

\* C22: the normalized path is the path without one trailing slash, with
\* every segment after a slash that is made of decimal digits only replaced
\* by {id} and every other segment as it was.
C22_NormalizeBySegments ==
    rpc = "normalized" =>
        out.data = JoinSegments(Segments(StripTrailingSlash(req.path), 1, << >>), 1)

---------------------------------------------------------------------------
(* Properties of redaction (SpecRedact) *)

Returned == rpc # "input" /\ ~out.thrown
\* The sensitive-field list in force contains "password".
PasswordListed ==
    \E j \in 1..Len(Constructor(opts).sensitiveFields) :
        Constructor(opts).sensitiveFields[j] = sPassword
MatchesPassword(key) == Includes(ToLowerCase(key), sPassword)

\* The values node holds at its indices, or under its keys outside cut.
KeptChildren(node, cut) ==
    IF node.kind = "array" THEN { node.items[i] : i \in 1..Len(node.items) }
    ELSE { node.entries[i].v : i \in { j \in 1..Len(node.entries) : node.entries[j].k \notin cut } }

\* Addresses reachable from the frontier without passing a key in cut.
RECURSIVE ReachKept(_, _, _, _)
ReachKept(m, frontier, seen, cut) ==
    IF frontier = {} THEN seen
    ELSE LET held == UNION { KeptChildren(m[a], cut) : a \in frontier }
             next == { b \in DOMAIN m : Ref(b) \in held }
         IN ReachKept(m, next \ (seen \cup frontier), seen \cup frontier, cut)

AllBodyKeys == { BodyKeys[i] : i \in 1..Len(BodyKeys) }

\* The sanitized output: the body the call returned, as it stands in the heap.
OutBody == out.data.body
OutNodes == Reachable(mem, OutBody)
\* The clone's address of an input address.
CloneOff == IF IsRef(OutBody) /\ IsRef(req.body) THEN OutBody.a - req.body.a ELSE 0

\* C6: with "password" in the sensitive-field list, in the output of a call
\* that returned every object key whose lower-case form contains "password"
\* holds the redaction marker, at every depth and inside arrays, and the
\* output consists only of the copies of the nodes the body reaches without
\* passing such a key: nothing under a matched key is in it.
C6_RedactionComplete ==
    (Returned /\ PasswordListed /\ IsRef(req.body)) =>
        /\ \A a \in OutNodes :
             mem[a].kind = "object" =>
               \A i \in 1..Len(mem[a].entries) :
                  MatchesPassword(mem[a].entries[i].k) => mem[a].entries[i].v = REDACTED
        /\ OutNodes \subseteq
             { b + CloneOff :
                 b \in ReachKept(mem0, {req.body.a}, {},
                                { k \in AllBodyKeys : MatchesPassword(k) }) }

\* A body that is an array of objects, one of which holds an object under a
\* key containing "Password", has been captured with "password" listed.
C6_Witness ==
    /\ rpc = "captured" /\ ~out.thrown /\ PasswordListed
    /\ IsRef(req.body) /\ mem0[req.body.a].kind = "array"
    /\ \E a \in Reachable(mem0, req.body) \ {req.body.a} :
         /\ mem0[a].kind = "object"
         /\ IsRef(GetKey(mem0[a], kUserPassword))
         /\ GetKey(mem[a + CloneOff], kUserPassword) = REDACTED

\* C8 (as claimed): an EndpointCapture built without sensitiveHeaders and
\* sensitiveFields redacts the authorization header and every body key whose
\* name contains "password".
NoRedactionOptions ==
    opts.sensitiveHeaders = Undefined /\ opts.sensitiveFields = Undefined
C8_DefaultsRedact ==
    (rpc = "captured" /\ ~out.thrown /\ NoRedactionOptions) =>
        /\ \A i \in 1..Len(out.data.headers.list) :
             ToLowerCase(out.data.headers.list[i].k) = sAuthorization
               => out.data.headers.list[i].v = REDACTED
        /\ \A a \in OutNodes :
             mem[a].kind = "object" =>
               \A i \in 1..Len(mem[a].entries) :
                  MatchesPassword(mem[a].entries[i].k) => mem[a].entries[i].v = REDACTED

\* C9: in the output of a call that returned, every key that matches no
\* sensitive substring and lies under no matched key holds its original value
\* (a nested object or array: the copy of the original one), arrays keep
\* their elements, no key is added or dropped, and the heap the caller built
\* is as it was.
KeptKey(k) == ~IsSensitiveKey(Constructor(opts), k)
C9_NonInterference ==
    /\ rpc # "input" => \A a \in DOMAIN mem0 : mem[a] = mem0[a]
    /\ (Returned /\ ~IsRef(req.body)) => OutBody = req.body
    /\ (Returned /\ IsRef(req.body)) =>
         \A b \in ReachKept(mem0, {req.body.a}, {},
                             { k \in AllBodyKeys : ~KeptKey(k) }) :
            LET orig == mem0[b]
                copy == mem[b + CloneOff]
            IN /\ copy.kind = orig.kind
               /\ orig.kind = "array" =>
                    copy.items = [i \in 1..Len(orig.items) |->
                                     ShiftValue(orig.items[i], CloneOff)]
               /\ orig.kind = "object" =>
                    /\ Len(copy.entries) = Len(orig.entries)
                    /\ \A i \in 1..Len(orig.entries) :
                         /\ copy.entries[i].k = orig.entries[i].k
                         /\ KeptKey(orig.entries[i].k) =>
                              copy.entries[i].v = ShiftValue(orig.entries[i].v, CloneOff)

\* An object with a plain key and a matched key has been captured: the
\* plain key kept its value while the matched one was redacted.
C9_Witness ==
    /\ rpc = "captured" /\ ~out.thrown /\ PasswordListed
    /\ IsRef(req.body) /\ mem0[req.body.a].kind = "object"
    /\ GetKey(mem0[req.body.a], kName) = Str("ann")
    /\ GetKey(mem0[req.body.a], kUserPassword) = Str("ann")
    /\ GetKey(mem[OutBody.a], kName) = Str("ann")
    /\ GetKey(mem[OutBody.a], kUserPassword) = REDACTED

\* Every key of the tree that matches a sensitive substring holds the
\* redaction marker.
RECURSIVE RedactedTree(_, _)
RedactedTree(o, v) ==
    CASE v.t = "object" ->
           \A i \in 1..Len(v.entries) :
              IF IsSensitiveKey(o, v.entries[i].k) THEN v.entries[i].v = REDACTED
              ELSE RedactedTree(o, v.entries[i].v)
      [] v.t = "array" -> \A i \in 1..Len(v.items) : RedactedTree(o, v.items[i])
      [] OTHER -> TRUE

\* The body was handed in as a string of JSON text.
BodyIsJsonText == req.body.t = "string" /\ "json" \in DOMAIN req.body

\* C29: a body handed in as a string of JSON text comes out redacted like
\* the object it denotes: in the sanitized body no key that matches a
\* sensitive substring keeps its value.
C29_JsonTextRedacted ==
    (Returned /\ BodyIsJsonText) =>
        /\ "json" \in DOMAIN OutBody
        /\ RedactedTree(Constructor(opts), OutBody.json)

\* C10 (as claimed): capturing or sanitizing a body whose object graph holds
\* a reference cycle returns without throwing.
C10_CyclicSafe ==
    (rpc # "input" /\ Cyclic(mem0, req.body)) => ~out.thrown

=============================================================================
